---- MODULE Spec2Model ----
(***************************************************************************)
(* A model of the decoding core of webgraph-rs:                            *)
(*   - the sequential BV-graph iterator (WebgraphSequentialIter) reading   *)
(*     the syntactic elements of each node from a codes reader and         *)
(*     rebuilding the successor list with a circular window of backrefs;   *)
(*   - the unbuffered bit-stream reader (UnbufferedBitStreamRead) in both  *)
(*     bit orders.                                                         *)
(*                                                                         *)
(* The codes reader of the iterator is a trait object of the source        *)
(* (BVGraphCodesReader): every read_* call returns one unsigned integer.   *)
(* The model keeps the stream as the sequence of those integers ("codes"); *)
(* the cursor of the reader is the number of codes consumed.               *)
(*                                                                         *)
(* usize values are kept as integers in two's-complement reading: a value  *)
(* x < 0 stands for the 64-bit word 2^64 + x.  All values of the model     *)
(* stay within a small distance of 0 modulo 2^64, so this is exact:        *)
(* unsigned order, wrap-around and the overflow conditions are those of    *)
(* 64-bit arithmetic.                                                      *)
(***************************************************************************)
EXTENDS Integers, Sequences, FiniteSets, TLC

VARIABLES
    \* ---- BVGraphSequential / WebgraphSequentialIter ----
    number_of_nodes,      \* BVGraphSequential.number_of_nodes
    compression_window,   \* BVGraphSequential.compression_window
    min_interval_length,  \* BVGraphSequential.min_interval_length
    overflow_checks,      \* build profile: TRUE = arithmetic overflow panics
    stream,               \* the codes of the .graph file read so far
    offsets,              \* offsets[v+1]: cursor at which node v starts
    graph,                \* graph[v+1]: the list the stream was written for
    codes_pos,            \* cursor of codes_reader (codes consumed)
    backrefs,             \* CircularBufferVec: compression_window + 1 slots
    current_node,         \* WebgraphSequentialIter.current_node
    ret,                  \* what the last call of next returned
    yielded,              \* the pairs (node, successors) lent so far
    degrees,              \* degrees[v+1]: the out-degree read for node v
    other,                \* a second iterator over the same graph
    \* ---- UnbufferedBitStreamRead ----
    bit_order,            \* the BitOrder parameter BO: "M2L" or "L2M"
    host_le,              \* the target stores words little-endian
    pattern,              \* which file the word reader is over
    bit_idx,              \* UnbufferedBitStreamRead.bit_idx
    data_pos,             \* position of the word reader `data`
    words_read,           \* calls of read_next_word so far
    ops,                  \* calls made on the bit reader so far
    last,                 \* the last call on the bit reader and its result
    \* ---- ArcListGraph / NodeIterator ----
    num_nodes,            \* ArcListGraph.num_nodes, NodeIterator.num_nodes
    arcs,                 \* the pairs (source, destination) of into_iter
    curr_node,            \* NodeIterator.curr_node
    next_pair,            \* NodeIterator.next_pair
    iter,                 \* NodeIterator.iter: the pairs taken from it
    lent,                 \* what the calls of NodeIterator::next returned
    \* ---- merge_perms ----
    perms,                \* the permutations in the files of args.perms
    epserde,              \* args.epserde
    perm,                 \* perm: the permutations as mapped from the files
    merged,               \* merged
    dst,                  \* the file args.dst
    merge_pc              \* where merge_perms is

bvvars == <<number_of_nodes, compression_window, min_interval_length,
            overflow_checks, stream, offsets, graph, codes_pos, backrefs,
            current_node, ret, yielded, degrees, other>>

bitvars == <<bit_order, host_le, pattern, bit_idx, data_pos, words_read,
             ops, last>>

alvars == <<num_nodes, arcs, curr_node, next_pair, iter, lent>>

pmvars == <<perms, epserde, perm, merged, dst, merge_pc>>

vars == <<bvvars, bitvars, alvars, pmvars>>

(***************************************************************************)
(* Bounds of the model.                                                    *)
(***************************************************************************)
MaxNodes == 3
MaxWindow == 2
MaxMinIntervalLength == 2
MaxDegree == 2
MaxCode == 2
MaxCodes == 4
MaxPattern == 2
MaxSeek == 63
MaxSkip == 2
MaxBitsArg == 66
MaxOps == 2
MaxArcNodes == 3
MaxArcs == 3
MaxPastEnd == 1
MaxPerms == 3
MaxPermLen == 3
FileWords == 3

(***************************************************************************)
(* usize arithmetic.                                                       *)
(***************************************************************************)
\* a < b as 64-bit unsigned words
ULt(a, b) == IF (a >= 0) = (b >= 0) THEN a < b ELSE a >= 0

ULe(a, b) == a = b \/ ULt(a, b)

\* a + b does not fit 64 bits (b is a small non-negative amount)
AddOverflows(a, b) == a < 0 /\ a + b >= 0

\* the half-open range a..(a + n) of Rust: empty when the end wrapped
URange(a, n) ==
    IF AddOverflows(a, n) THEN <<>> ELSE [i \in 1..n |-> a + i - 1]

RECURSIVE Pow2Mod(_, _)
Pow2Mod(e, m) == IF e = 0 THEN 1 % m ELSE (2 * Pow2Mod(e - 1, m)) % m

\* x % m for the 64-bit word that x stands for
UMod(x, m) == IF x >= 0 THEN x % m ELSE (Pow2Mod(64, m) + (x % m)) % m

RECURSIVE InsertSorted(_, _)
InsertSorted(x, l) ==
    IF l = <<>> THEN <<x>>
    ELSE IF ULe(x, Head(l)) THEN <<x>> \o l
    ELSE <<Head(l)>> \o InsertSorted(x, Tail(l))

\* the list left as it was pushed
Unsorted(l) == l

\* line 273: results.sort()
RECURSIVE SortUsize(_)
SortUsize(l) ==
    IF l = <<>> THEN <<>> ELSE InsertSorted(Head(l), SortUsize(Tail(l)))

\* crate::utils::nat2int
nat2int(u) == IF u % 2 = 0 THEN u \div 2 ELSE -((u + 1) \div 2)

(***************************************************************************)
(* The codes reader: read_outdegree, read_reference_offset, ... each       *)
(* return the code under the cursor and advance it by one.  Rd(s, c) is    *)
(* the code read with the cursor at c.                                     *)
(***************************************************************************)
Rd(s, c) == IF c < Len(s) THEN s[c + 1] ELSE 0

(***************************************************************************)
(* CircularBufferVec::index, take, push.                                   *)
(***************************************************************************)
SlotOf(node_id) == UMod(node_id, compression_window + 1) + 1

BackrefsIndex(b, node_id) == b[SlotOf(node_id)]

BackrefsTake(b, node_id) == [b EXCEPT ![SlotOf(node_id)] = <<>>]

BackrefsPush(b, node_id, data) == [b EXCEPT ![SlotOf(node_id)] = data]

(***************************************************************************)
(* get_successors_iter_priv.  Every phase returns                          *)
(*   [st |-> "ok" | "abort", res |-> results so far, c |-> cursor].        *)
(* "abort" is a panic (slice out of range, arithmetic overflow with        *)
(* overflow checks) or, without overflow checks, the wrapped count         *)
(* degree - results.len() of about 2^64 residuals, which ends in the       *)
(* allocation failure of results.                                          *)
(***************************************************************************)
Ok(res, c) == [st |-> "ok", res |-> res, c |-> c]

Abort(res, c) == [st |-> "abort", res |-> res, c |-> c]

\* lines 218-228: the blocks after the first, then the tail
RECURSIVE CopyBlocks(_, _, _, _, _, _, _)
CopyBlocks(s, c, neighbours, block_id, number_of_blocks, idx, res) ==
    IF block_id >= number_of_blocks
    THEN IF number_of_blocks % 2 = 0
         THEN IF idx > Len(neighbours) THEN Abort(res, c)
              ELSE Ok(res \o SubSeq(neighbours, idx + 1, Len(neighbours)), c)
         ELSE Ok(res, c)
    ELSE LET block == Rd(s, c)
             end == idx + block + 1
         IN  IF block_id % 2 = 0
             THEN IF end > Len(neighbours) THEN Abort(res, c + 1)
                  ELSE CopyBlocks(s, c + 1, neighbours, block_id + 1,
                                  number_of_blocks, end,
                                  res \o SubSeq(neighbours, idx + 1, end))
             ELSE CopyBlocks(s, c + 1, neighbours, block_id + 1,
                             number_of_blocks, end, res)

\* the node being decoded taken as its own reference
ReferenceNodeIdOfScratch(node_id, ref_delta) == node_id

\* the reference one node too late
ReferenceNodeIdOffByOne(node_id, ref_delta) == node_id - ref_delta + 1

\* line 202: the node whose list is copied
ReferenceNodeId(node_id, ref_delta) == node_id - ref_delta

\* the first block left out of the copy
CopyFromReference_FirstBlockSkipped(node_id, ref_delta, s, c, b) ==
    IF ref_delta > node_id /\ overflow_checks THEN Abort(<<>>, c)
    ELSE
    LET neighbours == BackrefsIndex(b, ReferenceNodeId(node_id, ref_delta))
        number_of_blocks == Rd(s, c)
    IN  IF number_of_blocks = 0 THEN Ok(neighbours, c + 1)
        ELSE LET idx == Rd(s, c + 1)
             IN  IF idx > Len(neighbours) THEN Abort(<<>>, c + 2)
                 ELSE CopyBlocks(s, c + 2, neighbours, 1, number_of_blocks,
                                 idx, <<>>)

\* lines 200-230
CopyFromReference(node_id, ref_delta, s, c, b) ==
    IF ref_delta > node_id /\ overflow_checks THEN Abort(<<>>, c)
    ELSE
    LET neighbours == BackrefsIndex(b, ReferenceNodeId(node_id, ref_delta))
        number_of_blocks == Rd(s, c)
    IN  IF number_of_blocks = 0 THEN Ok(neighbours, c + 1)
        ELSE LET idx == Rd(s, c + 1)
             IN  IF idx > Len(neighbours) THEN Abort(<<>>, c + 2)
                 ELSE CopyBlocks(s, c + 2, neighbours, 1, number_of_blocks,
                                 idx, SubSeq(neighbours, 1, idx))

\* the code added without nat2int
FirstIdUnsigned(node_id, code) == node_id + code

\* lines 238-239 and 262-263: (node_id as i64 + nat2int(code)) as usize
FirstId(node_id, code) == node_id + nat2int(code)

\* the later intervals starting right at the end of the one before
RECURSIVE IntervalLoop_NoSeparation(_, _, _, _, _, _)
IntervalLoop_NoSeparation(s, c, k, number_of_intervals, start, res) ==
    IF k >= number_of_intervals THEN Ok(res, c)
    ELSE LET step == Rd(s, c)
             start1 == start + step
             delta == Rd(s, c + 1) + min_interval_length
         IN  IF overflow_checks /\ AddOverflows(start, step)
             THEN Abort(res, c + 1)
             ELSE IF overflow_checks /\ AddOverflows(start1, delta)
             THEN Abort(res, c + 2)
             ELSE IntervalLoop_NoSeparation(s, c + 2, k + 1,
                                            number_of_intervals,
                                            start1 + delta,
                                            res \o URange(start1, delta))

\* lines 247-255
RECURSIVE IntervalLoop(_, _, _, _, _, _)
IntervalLoop(s, c, k, number_of_intervals, start, res) ==
    IF k >= number_of_intervals THEN Ok(res, c)
    ELSE LET step == 1 + Rd(s, c)
             start1 == start + step
             delta == Rd(s, c + 1) + min_interval_length
         IN  IF overflow_checks /\ AddOverflows(start, step)
             THEN Abort(res, c + 1)
             ELSE IF overflow_checks /\ AddOverflows(start1, delta)
             THEN Abort(res, c + 2)
             ELSE IntervalLoop(s, c + 2, k + 1, number_of_intervals,
                               start1 + delta, res \o URange(start1, delta))

\* the intervals read whatever min_interval_length is
Intervals_NoMinLengthGuard(node_id, degree, s, r) ==
    IF Len(r.res) > degree THEN Abort(r.res, r.c)
    ELSE IF degree - Len(r.res) = 0 THEN r
    ELSE LET number_of_intervals == Rd(s, r.c)
         IN  IF number_of_intervals = 0 THEN Ok(r.res, r.c + 1)
             ELSE LET start == FirstId(node_id, Rd(s, r.c + 1))
                      delta == Rd(s, r.c + 2) + min_interval_length
                  IN  IF overflow_checks /\ AddOverflows(start, delta)
                      THEN Abort(r.res, r.c + 3)
                      ELSE IntervalLoop(s, r.c + 3, 1, number_of_intervals,
                                        start + delta,
                                        r.res \o URange(start, delta))

\* lines 232-257
Intervals(node_id, degree, s, r) ==
    IF Len(r.res) > degree THEN Abort(r.res, r.c)
    ELSE IF degree - Len(r.res) = 0 \/ min_interval_length = 0 THEN r
    ELSE LET number_of_intervals == Rd(s, r.c)
         IN  IF number_of_intervals = 0 THEN Ok(r.res, r.c + 1)
             ELSE LET start == FirstId(node_id, Rd(s, r.c + 1))
                      delta == Rd(s, r.c + 2) + min_interval_length
                  IN  IF overflow_checks /\ AddOverflows(start, delta)
                      THEN Abort(r.res, r.c + 3)
                      ELSE IntervalLoop(s, r.c + 3, 1, number_of_intervals,
                                        start + delta,
                                        r.res \o URange(start, delta))

\* the later residuals without the 1 added to their gap
RECURSIVE ResidualLoop_NoSeparation(_, _, _, _, _, _)
ResidualLoop_NoSeparation(s, c, k, nodes_left_to_decode, extra, res) ==
    IF k >= nodes_left_to_decode THEN Ok(res, c)
    ELSE LET step == Rd(s, c)
         IN  IF overflow_checks /\ AddOverflows(extra, step)
             THEN Abort(res, c + 1)
             ELSE ResidualLoop_NoSeparation(s, c + 1, k + 1,
                                            nodes_left_to_decode,
                                            extra + step,
                                            Append(res, extra + step))

\* lines 267-270
RECURSIVE ResidualLoop(_, _, _, _, _, _)
ResidualLoop(s, c, k, nodes_left_to_decode, extra, res) ==
    IF k >= nodes_left_to_decode THEN Ok(res, c)
    ELSE LET step == 1 + Rd(s, c)
         IN  IF overflow_checks /\ AddOverflows(extra, step)
             THEN Abort(res, c + 1)
             ELSE ResidualLoop(s, c + 1, k + 1, nodes_left_to_decode,
                               extra + step, Append(res, extra + step))

\* one residual too many
NodesLeftOffByOne(degree, results_len) == degree - results_len + 1

\* line 260
NodesLeftToDecode(degree, results_len) == degree - results_len

\* lines 259-271
Residuals(node_id, degree, s, r) ==
    IF Len(r.res) > degree THEN Abort(r.res, r.c)
    ELSE LET nodes_left_to_decode == NodesLeftToDecode(degree, Len(r.res))
         IN  IF nodes_left_to_decode = 0 THEN r
             ELSE LET extra == FirstId(node_id, Rd(s, r.c))
                  IN  ResidualLoop(s, r.c + 1, 1, nodes_left_to_decode,
                                   extra, Append(r.res, extra))

\* the node of outdegree 0 decoded like the others
get_successors_iter_priv_NoEarlyReturn(node_id, s, c, b) ==
    LET degree == Rd(s, c)
        ref_delta == IF compression_window # 0 THEN Rd(s, c + 1) ELSE 0
        c1 == IF compression_window # 0 THEN c + 2 ELSE c + 1
        copied == IF ref_delta # 0
                  THEN CopyFromReference(node_id, ref_delta, s, c1, b)
                  ELSE Ok(<<>>, c1)
    IN  IF copied.st # "ok" THEN copied
        ELSE LET iv == Intervals(node_id, degree, s, copied)
             IN  IF iv.st # "ok" THEN iv
                 ELSE LET rs == Residuals(node_id, degree, s, iv)
                      IN  IF rs.st # "ok" THEN rs
                          ELSE Ok(SortUsize(rs.res), rs.c)

\* lines 184-275; results is the cleared vector taken from the window
get_successors_iter_priv(node_id, s, c, b) ==
    LET degree == Rd(s, c)
    IN  IF degree = 0 THEN Ok(<<>>, c + 1)
        ELSE
        LET ref_delta == IF compression_window # 0 THEN Rd(s, c + 1) ELSE 0
            c1 == IF compression_window # 0 THEN c + 2 ELSE c + 1
            copied == IF ref_delta # 0
                      THEN CopyFromReference(node_id, ref_delta, s, c1, b)
                      ELSE Ok(<<>>, c1)
        IN  IF copied.st # "ok" THEN copied
            ELSE LET iv == Intervals(node_id, degree, s, copied)
                 IN  IF iv.st # "ok" THEN iv
                     ELSE LET rs == Residuals(node_id, degree, s, iv)
                          IN  IF rs.st # "ok" THEN rs
                              ELSE Ok(SortUsize(rs.res), rs.c)

(***************************************************************************)
(* The calls get_successors_iter_priv makes on the codes reader, in order. *)
(* Each call reads one code, so what a part of the decoding read is the    *)
(* advance of the cursor over it.                                          *)
(***************************************************************************)
Times(n, x) == [i \in 1..n |-> x]

\* lines 184-275: the methods of codes_reader called for node_id
CodecReads(node_id, s, c, b) ==
    LET degree == Rd(s, c)
    IN  IF degree = 0 THEN <<"read_outdegree">>
        ELSE
        LET ref_delta == IF compression_window # 0 THEN Rd(s, c + 1) ELSE 0
            c1 == IF compression_window # 0 THEN c + 2 ELSE c + 1
            copied == IF ref_delta # 0
                      THEN CopyFromReference(node_id, ref_delta, s, c1, b)
                      ELSE Ok(<<>>, c1)
            iv == IF copied.st = "ok"
                  THEN Intervals(node_id, degree, s, copied) ELSE copied
            rs == IF iv.st = "ok"
                  THEN Residuals(node_id, degree, s, iv) ELSE iv
        IN  <<"read_outdegree">>
            \o (IF compression_window # 0
                THEN <<"read_reference_offset">> ELSE <<>>)
            \o (IF copied.c > c1
                THEN <<"read_block_count">>
                     \o Times(copied.c - c1 - 1, "read_blocks")
                ELSE <<>>)
            \o (IF iv.c > copied.c
                THEN <<"read_interval_count">>
                     \o [i \in 1..(iv.c - copied.c - 1) |->
                            IF i % 2 = 1 THEN "read_interval_start"
                            ELSE "read_interval_len"]
                ELSE <<>>)
            \o (IF rs.c > iv.c
                THEN <<"read_first_residual">>
                     \o Times(rs.c - iv.c - 1, "read_residual")
                ELSE <<>>)

(***************************************************************************)
(* The writer of the stream, from the format of the BV graph: node v with  *)
(* the strictly increasing list T is written with reference offset r as    *)
(* outdegree, reference_offset (when the window is not 0), the blocks of   *)
(* the copy mask, the intervals of at least min_interval_length            *)
(* consecutive ids among what is left and the residuals.                   *)
(***************************************************************************)
Min(a, b) == IF a <= b THEN a ELSE b

RangeOf(l) == {l[i] : i \in 1..Len(l)}

RECURSIVE SeqOfSet(_)
SeqOfSet(S) ==
    IF S = {} THEN <<>>
    ELSE LET m == CHOOSE x \in S : \A y \in S : x <= y
         IN  <<m>> \o SeqOfSet(S \ {m})

\* the successor lists a node of a graph of n nodes can have
SuccessorLists(n) ==
    {SeqOfSet(S) : S \in {T \in SUBSET (0..(n - 1)) : Cardinality(T) <= MaxDegree}}

int2nat(x) == IF x >= 0 THEN 2 * x ELSE -(2 * x) - 1

\* run lengths of a copy mask, the first run a copied one (it may be 0)
RECURSIVE MaskRuns(_, _, _, _)
MaskRuns(mask, i, copying, run) ==
    IF i > Len(mask) THEN <<run>>
    ELSE IF mask[i] = copying THEN MaskRuns(mask, i + 1, copying, run + 1)
    ELSE <<run>> \o MaskRuns(mask, i + 1, ~copying, 1)

\* block_count and blocks: the last run of the mask is left implicit
EncodeBlocks(prev, T) ==
    LET runs == MaskRuns([i \in 1..Len(prev) |-> prev[i] \in RangeOf(T)],
                         1, TRUE, 0)
        B == Len(runs) - 1
    IN  <<B>> \o [i \in 1..B |-> IF i = 1 THEN runs[1] ELSE runs[i] - 1]

\* the maximal runs of consecutive ids of a strictly increasing list
RECURSIVE ConsecutiveRuns(_)
ConsecutiveRuns(l) ==
    IF l = <<>> THEN <<>>
    ELSE LET rest == ConsecutiveRuns(Tail(l))
         IN  IF rest # <<>> /\ Head(rest).start = Head(l) + 1
             THEN <<[start |-> Head(l), len |-> Head(rest).len + 1]>>
                  \o Tail(rest)
             ELSE <<[start |-> Head(l), len |-> 1]>> \o rest

IsInterval(run) == min_interval_length # 0 /\ run.len >= min_interval_length

\* interval_count, then interval_start and interval_len of each interval
EncodeIntervals(v, iv) ==
    <<Len(iv)>> \o
    [j \in 1..(2 * Len(iv)) |->
        LET k == (j + 1) \div 2
        IN  IF j % 2 = 0 THEN iv[k].len - min_interval_length
            ELSE IF k = 1 THEN int2nat(iv[1].start - v)
            ELSE iv[k].start - (iv[k - 1].start + iv[k - 1].len) - 1]

\* first_residual, then the residuals
EncodeResiduals(v, e) ==
    [k \in 1..Len(e) |->
        IF k = 1 THEN int2nat(e[1] - v) ELSE e[k] - e[k - 1] - 1]

EncodeNode(v, T, r) ==
    IF Len(T) = 0 THEN <<0>>
    ELSE
    LET prev == IF r # 0 THEN graph[v - r + 1] ELSE <<>>
        copied == RangeOf(prev) \cap RangeOf(T)
        left == SeqOfSet(RangeOf(T) \ copied)
        runs == ConsecutiveRuns(left)
        iv == SelectSeq(runs, IsInterval)
        inIv == UNION {(iv[k].start)..(iv[k].start + iv[k].len - 1) :
                       k \in 1..Len(iv)}
        e == SeqOfSet(RangeOf(left) \ inIv)
    IN  <<Len(T)>>
        \o (IF compression_window # 0 THEN <<r>> ELSE <<>>)
        \o (IF r # 0 THEN EncodeBlocks(prev, T) ELSE <<>>)
        \o (IF left # <<>> /\ min_interval_length # 0
            THEN EncodeIntervals(v, iv) ELSE <<>>)
        \o EncodeResiduals(v, e)

\* the streams of a graph: the stream so far and the next node written
GraphExtensions ==
    {[s |-> stream \o EncodeNode(current_node, T, r),
      o |-> Len(stream), g |-> T] :
        T \in SuccessorLists(number_of_nodes),
        r \in 0..Min(current_node, compression_window)}

(***************************************************************************)
(* Any stream of codes: the stream so far, extended code by code for as    *)
(* long as decoding the next node reads past its end.                      *)
(***************************************************************************)
ReadsPastEnd(s) ==
    get_successors_iter_priv(current_node, s, codes_pos,
                             BackrefsTake(backrefs, current_node)).c > Len(s)

RECURSIVE Extend(_, _)
Extend(frontier, k) ==
    LET done == {s \in frontier : ~ReadsPastEnd(s)}
    IN  IF k = 0 THEN done
        ELSE done \cup Extend({Append(s, x) : s \in frontier \ done,
                                               x \in 0..MaxCode}, k - 1)

AnyExtensions ==
    {[s |-> s, o |-> codes_pos, g |-> <<>>] : s \in Extend({stream}, MaxCodes)}

(***************************************************************************)
(* The bit reader.  A u64 is the function from bit number (0 the least     *)
(* significant) to its bit.                                                *)
(***************************************************************************)
WordBits == 64

BitNumbers == 0..(WordBits - 1)

ZeroWord == [i \in BitNumbers |-> 0]

Shl(x, k) == [i \in BitNumbers |-> IF i >= k THEN x[i - k] ELSE 0]

Shr(x, k) == [i \in BitNumbers |-> IF i + k < WordBits THEN x[i + k] ELSE 0]

BitOr(x, y) == [i \in BitNumbers |-> IF x[i] = 1 \/ y[i] = 1 THEN 1 ELSE 0]

swap_bytes(x) == [i \in BitNumbers |-> x[(7 - (i \div 8)) * 8 + (i % 8)]]

to_be(x) == IF host_le THEN swap_bytes(x) ELSE x

to_le(x) == IF host_le THEN x ELSE swap_bytes(x)

leading_zeros(x) ==
    IF x = ZeroWord THEN WordBits
    ELSE WordBits - 1 - (CHOOSE i \in BitNumbers :
                            x[i] = 1 /\ \A j \in BitNumbers : j > i => x[j] = 0)

trailing_zeros(x) ==
    IF x = ZeroWord THEN WordBits
    ELSE CHOOSE i \in BitNumbers :
            x[i] = 1 /\ \A j \in BitNumbers : j < i => x[j] = 0

\* a shift by the width or more overflows
ShiftOk(k) == k >= 0 /\ k < WordBits

(***************************************************************************)
(* The word reader `data`: the bytes of the file as native 64-bit words,   *)
(* zero words past the end of the file.                                    *)
(***************************************************************************)
RECURSIVE Pow2(_)
Pow2(e) == IF e = 0 THEN 1 ELSE 2 * Pow2(e - 1)

BitOfByte(b, j) == (b \div Pow2(j)) % 2

\* byte k of the file: the files of even number are all 0 but for one bit,
\* further in the file as the number grows; the others are mixed bits
MemByte(k) ==
    IF k >= 8 * FileWords THEN 0
    ELSE IF pattern % 2 = 0 THEN (IF k = 9 + 4 * pattern THEN 16 ELSE 0)
    ELSE ((k + 1) * (2 * pattern + 1) * 37 + pattern * 101) % 256

\* the word at index w as the target loads it
NativeWord(w) ==
    [i \in BitNumbers |->
        BitOfByte(MemByte(8 * w + (IF host_le THEN i \div 8 ELSE 7 - (i \div 8))),
                  i % 8)]

set_position(dpos, word_index) == word_index

\* the word reader left where the last call left it
NoSeekWord(dpos, idx) == dpos

\* lines 56, 82, 146, 173: self.data.set_position(self.bit_idx / 64)?
SeekWord(dpos, idx) == set_position(dpos, idx \div 64)

\* the width test letting 65 through
TooManyBitsOffByOne(n_bits) == n_bits > 65

\* lines 51 and 141
TooManyBits(n_bits) == n_bits > 64

\* the case of no bits forgotten
NeverNoBits(n_bits) == FALSE

\* lines 54 and 144
NoBits(n_bits) == n_bits = 0

(***************************************************************************)
(* BitRead<M2L> and BitRead<L2M> for UnbufferedBitStreamRead.  A call      *)
(* returns [st, val, count, idx, dpos, reads]: the result (val for         *)
(* read_bits and peek_bits, count for read_unary), the bit index and the   *)
(* position of the word reader after it, and the words it read.  st is     *)
(* "ok", "err" (the bail! of n_bits > 64), "abort" (a shift that           *)
(* overflows) or "hang" (read_unary over the zero words past the end).     *)
(***************************************************************************)
Result(st, val, count, idx, dpos, reads) ==
    [st |-> st, val |-> val, count |-> count, idx |-> idx, dpos |-> dpos,
     reads |-> reads]

\* the low word shifted as if the bits started the high word
peek_bits_M2L_WrongShift(n_bits, idx, dpos) ==
    IF TooManyBits(n_bits) THEN Result("err", ZeroWord, 0, idx, dpos, 0)
    ELSE IF NoBits(n_bits) THEN Result("ok", ZeroWord, 0, idx, dpos, 0)
    ELSE
    LET pos == SeekWord(dpos, idx)
        in_word_offset == idx % 64
        high_word == to_be(NativeWord(pos))
        low_word == to_be(NativeWord(pos + 1))
    IN  IF in_word_offset + n_bits <= 64
        THEN Result("ok", Shr(Shl(high_word, in_word_offset), 64 - n_bits),
                    0, idx, pos + 1, 1)
        ELSE Result("ok",
                    BitOr(Shr(Shl(high_word, in_word_offset), 64 - n_bits),
                          Shr(low_word, 64 - n_bits)),
                    0, idx, pos + 2, 2)

\* lines 50-73
peek_bits_M2L(n_bits, idx, dpos) ==
    IF TooManyBits(n_bits) THEN Result("err", ZeroWord, 0, idx, dpos, 0)
    ELSE IF NoBits(n_bits) THEN Result("ok", ZeroWord, 0, idx, dpos, 0)
    ELSE
    LET pos == SeekWord(dpos, idx)
        in_word_offset == idx % 64
    IN  IF in_word_offset + n_bits <= 64
        THEN LET word == to_be(NativeWord(pos))
             IN  IF ~(ShiftOk(in_word_offset) /\ ShiftOk(64 - n_bits))
                 THEN Result("abort", ZeroWord, 0, idx, pos + 1, 1)
                 ELSE Result("ok", Shr(Shl(word, in_word_offset), 64 - n_bits),
                             0, idx, pos + 1, 1)
        ELSE LET high_word == to_be(NativeWord(pos))
                 low_word == to_be(NativeWord(pos + 1))
                 shamt1 == 64 - n_bits
                 shamt2 == 128 - in_word_offset - n_bits
             IN  IF ~(ShiftOk(in_word_offset) /\ ShiftOk(shamt1)
                      /\ ShiftOk(shamt2))
                 THEN Result("abort", ZeroWord, 0, idx, pos + 2, 2)
                 ELSE Result("ok",
                             BitOr(Shr(Shl(high_word, in_word_offset), shamt1),
                                   Shr(low_word, shamt2)),
                             0, idx, pos + 2, 2)

\* across two words, the bits above the n asked for left in the result
peek_bits_L2M_Unmasked(n_bits, idx, dpos) ==
    IF TooManyBits(n_bits) THEN Result("err", ZeroWord, 0, idx, dpos, 0)
    ELSE IF NoBits(n_bits) THEN Result("ok", ZeroWord, 0, idx, dpos, 0)
    ELSE
    LET pos == SeekWord(dpos, idx)
        in_word_offset == idx % 64
        low_word == to_le(NativeWord(pos))
        high_word == to_le(NativeWord(pos + 1))
        shamt == 64 - n_bits
    IN  IF in_word_offset + n_bits <= 64
        THEN Result("ok", Shr(Shl(low_word, shamt - in_word_offset), shamt),
                    0, idx, pos + 1, 1)
        ELSE Result("ok",
                    BitOr(Shl(high_word, 64 - in_word_offset),
                          Shr(low_word, in_word_offset)),
                    0, idx, pos + 2, 2)

\* lines 140-164
peek_bits_L2M(n_bits, idx, dpos) ==
    IF TooManyBits(n_bits) THEN Result("err", ZeroWord, 0, idx, dpos, 0)
    ELSE IF NoBits(n_bits) THEN Result("ok", ZeroWord, 0, idx, dpos, 0)
    ELSE
    LET pos == SeekWord(dpos, idx)
        in_word_offset == idx % 64
    IN  IF in_word_offset + n_bits <= 64
        THEN LET word == to_le(NativeWord(pos))
                 shamt == 64 - n_bits
             IN  IF ~(ShiftOk(shamt - in_word_offset) /\ ShiftOk(shamt))
                 THEN Result("abort", ZeroWord, 0, idx, pos + 1, 1)
                 ELSE Result("ok", Shr(Shl(word, shamt - in_word_offset), shamt),
                             0, idx, pos + 1, 1)
        ELSE LET low_word == to_le(NativeWord(pos))
                 high_word == to_le(NativeWord(pos + 1))
                 shamt1 == 128 - in_word_offset - n_bits
                 shamt2 == 64 - n_bits
             IN  IF ~(ShiftOk(shamt1) /\ ShiftOk(shamt2)
                      /\ ShiftOk(in_word_offset))
                 THEN Result("abort", ZeroWord, 0, idx, pos + 2, 2)
                 ELSE Result("ok",
                             BitOr(Shr(Shl(high_word, shamt1), shamt2),
                                   Shr(low_word, in_word_offset)),
                             0, idx, pos + 2, 2)

peek_bits(n_bits, idx, dpos) ==
    IF bit_order = "M2L" THEN peek_bits_M2L(n_bits, idx, dpos)
    ELSE peek_bits_L2M(n_bits, idx, dpos)

\* lines 37-40 and 127-130
skip_bits(n_bits, idx, dpos) ==
    Result("ok", ZeroWord, 0, idx + n_bits, dpos, 0)

\* the position advanced before the bits are looked at
read_bits_SkipFirst(n_bits, idx, dpos) ==
    LET res == peek_bits(n_bits, skip_bits(n_bits, idx, dpos).idx, dpos)
    IN  IF res.st # "ok" THEN res
        ELSE [res EXCEPT !.idx = skip_bits(n_bits, idx, dpos).idx]

\* lines 43-47 and 133-137
read_bits(n_bits, idx, dpos) ==
    LET res == peek_bits(n_bits, idx, dpos)
    IN  IF res.st # "ok" THEN res
        ELSE [res EXCEPT !.idx = skip_bits(n_bits, idx, dpos).idx]

\* lines 108-111 and 119-122
seek_bit(bit_index, idx, dpos) ==
    Result("ok", ZeroWord, 0, bit_index, dpos, 0)

\* lines 89-99 and 180-190: word is the word of the reader at pos - 1
RECURSIVE UnaryLoop(_, _, _, _, _, _)
UnaryLoop(word, bits_in_word, total, idx, pos, reads) ==
    LET zeros == IF bit_order = "M2L" THEN leading_zeros(word)
                 ELSE trailing_zeros(word)
    IN  IF zeros < bits_in_word
        THEN Result("ok", ZeroWord, total + zeros, idx + total + zeros + 1,
                    pos, reads)
        ELSE IF pos >= FileWords
        THEN Result("hang", ZeroWord, 0, idx, pos, reads)
        ELSE UnaryLoop(IF bit_order = "M2L" THEN to_be(NativeWord(pos))
                       ELSE to_le(NativeWord(pos)),
                       64, total + bits_in_word, idx, pos + 1, reads + 1)

\* the bits left in the first word taken as a whole word
read_unary_WholeFirstWord(idx, dpos) ==
    LET pos == SeekWord(dpos, idx)
        in_word_offset == idx % 64
        word == IF bit_order = "M2L"
                THEN Shl(to_be(NativeWord(pos)), in_word_offset)
                ELSE Shr(to_le(NativeWord(pos)), in_word_offset)
    IN  UnaryLoop(word, 64, 0, idx, pos + 1, 1)

\* lines 76-100 and 167-191, with USE_TABLE = false
read_unary(idx, dpos) ==
    LET pos == SeekWord(dpos, idx)
        in_word_offset == idx % 64
        word == IF bit_order = "M2L"
                THEN Shl(to_be(NativeWord(pos)), in_word_offset)
                ELSE Shr(to_le(NativeWord(pos)), in_word_offset)
    IN  UnaryLoop(word, 64 - in_word_offset, 0, idx, pos + 1, 1)

(***************************************************************************)
(* UnbufferedBitStreamRead::new and the calls on the reader.               *)
(***************************************************************************)
NoCall == [op |-> "new", n |-> 0, at |-> 0, data_at |-> 0, st |-> "ok",
           val |-> ZeroWord, count |-> 0, reads |-> 0]

Call(op, n, res) ==
    /\ last.st \in {"ok", "err"}
    /\ ops < MaxOps
    /\ ops' = ops + 1
    /\ last' = [op |-> op, n |-> n, at |-> bit_idx, data_at |-> data_pos,
                st |-> res.st, val |-> res.val, count |-> res.count,
                reads |-> res.reads]
    /\ bit_idx' = res.idx
    /\ data_pos' = res.dpos
    /\ words_read' = words_read + res.reads
    /\ UNCHANGED <<bit_order, host_le, pattern, bvvars, alvars, pmvars>>

PeekBits == \E n \in 0..MaxBitsArg : Call("peek_bits", n, peek_bits(n, bit_idx, data_pos))

ReadBits == \E n \in 0..MaxBitsArg : Call("read_bits", n, read_bits(n, bit_idx, data_pos))

SkipBits == \E n \in 0..MaxSkip : Call("skip_bits", n, skip_bits(n, bit_idx, data_pos))

SeekBit == \E p \in 0..MaxSeek : Call("seek_bit", p, seek_bit(p, bit_idx, data_pos))

ReadUnary == Call("read_unary", 0, read_unary(bit_idx, data_pos))

(***************************************************************************)
(* ArcListGraph: NodeIterator over the pairs of into_iter and the          *)
(* Successors lent by it.  usize::MAX is -1.  lent holds, for every call   *)
(* of NodeIterator::next, [kind |-> "none"] or [kind |-> "some", node,     *)
(* succ, done]: the node, the destinations its Successors returned so far  *)
(* and whether its Successors returned None.                               *)
(***************************************************************************)
NoPair == <<-1, -1>>

\* self.iter.next().unwrap_or((usize::MAX, usize::MAX)) with i pairs taken
IterNext(i) ==
    IF i < Len(arcs) THEN [pair |-> arcs[i + 1], iter |-> i + 1]
    ELSE [pair |-> NoPair, iter |-> i]

\* the loop test with <= for <
PairNotAfter(pair, node) == ULe(pair[1], node)

\* line 67: self.next_pair.0 < self.curr_node
PairBefore(pair, node) == ULt(pair[1], node)

\* no pair discarded
SkipPairs_None(pair, i, node) == [pair |-> pair, iter |-> i]

\* lines 67-69
RECURSIVE SkipPairs(_, _, _)
SkipPairs(pair, i, node) ==
    IF PairBefore(pair, node)
    THEN SkipPairs(IterNext(i).pair, IterNext(i).iter, node)
    ELSE [pair |-> pair, iter |-> i]

ArcListIdle ==
    /\ num_nodes = 0
    /\ arcs = <<>>
    /\ curr_node = -1
    /\ next_pair = NoPair
    /\ iter = 0
    /\ lent = <<>>

\* the lists of at most MaxArcs pairs over the nodes [0, n), by source
ArcLists(n) ==
    {l \in UNION {[1..k -> (0..(n - 1)) \X (0..(n - 1))] : k \in 0..MaxArcs} :
        \A i \in 1..(Len(l) - 1) : l[i][1] <= l[i + 1][1]}

\* the calls of NodeIterator::next that returned None
NonesLent == Cardinality({k \in 1..Len(lent) : lent[k].kind = "none"})

\* lines 60-72
NodeIteratorNext ==
    /\ NonesLent = 0 \/ Len(lent) < num_nodes + 1 + MaxPastEnd
    /\ curr_node' = curr_node + 1
    /\ IF curr_node' = num_nodes
       THEN /\ lent' = Append(lent, [kind |-> "none"])
            /\ UNCHANGED <<next_pair, iter>>
       ELSE LET skipped == SkipPairs(next_pair, iter, curr_node')
            IN  /\ next_pair' = skipped.pair
                /\ iter' = skipped.iter
                /\ lent' = Append(lent, [kind |-> "some", node |-> curr_node',
                                         succ |-> <<>>, done |-> FALSE])
    /\ UNCHANGED <<num_nodes, arcs, bvvars, bitvars, pmvars>>

\* lines 113-129, on the Successors of the last node lent
SuccessorsNext ==
    /\ lent # <<>>
    /\ lent[Len(lent)].kind = "some"
    /\ ~lent[Len(lent)].done
    /\ IF next_pair[1] # curr_node
       THEN /\ lent' = [lent EXCEPT ![Len(lent)].done = TRUE]
            /\ UNCHANGED <<next_pair, iter>>
       ELSE /\ next_pair' = IterNext(iter).pair
            /\ iter' = IterNext(iter).iter
            /\ lent' = [lent EXCEPT ![Len(lent)].succ = Append(@, next_pair[2])]
    /\ UNCHANGED <<num_nodes, arcs, curr_node, bvvars, bitvars, pmvars>>

(***************************************************************************)
(* merge_perms.  A file is its sequence of bytes.  The file of a Java      *)
(* permutation holds its values as big-endian u64; of the ε-serde file of  *)
(* a Vec<usize> only the values, in the byte order of the target, are      *)
(* kept.                                                                   *)
(***************************************************************************)
\* byte e of v, byte 0 the least significant
RECURSIVE ByteOf(_, _)
ByteOf(v, e) == IF e = 0 THEN v % 256 ELSE ByteOf(v \div 256, e - 1)

\* v as u64, to_le_bytes
to_le_bytes(v) == [j \in 1..8 |-> ByteOf(v, j - 1)]

\* line 88: (v as u64).to_be_bytes()
to_be_bytes(v) == [j \in 1..8 |-> ByteOf(v, 8 - j)]

from_be_bytes(b) ==
    LET F[j \in 0..8] == IF j = 0 THEN 0 ELSE 256 * F[j - 1] + b[j]
    IN  F[8]

from_le_bytes(b) ==
    LET F[j \in 0..8] == IF j = 0 THEN 0 ELSE 256 * F[j - 1] + b[9 - j]
    IN  F[8]

\* the file of the Java permutation p
JavaFile(p) ==
    [b \in 1..(8 * Len(p)) |->
        to_be_bytes(p[((b - 1) \div 8) + 1])[((b - 1) % 8) + 1]]

\* JavaPermutation::get
JavaPermutation_get(file, v) ==
    from_be_bytes(SubSeq(file, 8 * v + 1, 8 * v + 8))

\* the values of the ε-serde file of the vector p
EpserdeFile(p) ==
    [b \in 1..(8 * Len(p)) |->
        (IF host_le THEN to_le_bytes(p[((b - 1) \div 8) + 1])
         ELSE to_be_bytes(p[((b - 1) \div 8) + 1]))[((b - 1) % 8) + 1]]

\* <Vec<usize>>::mmap: the vector of the file
Epserde_mmap(file) ==
    [i \in 1..(Len(file) \div 8) |->
        IF host_le THEN from_le_bytes(SubSeq(file, 8 * i - 7, 8 * i))
        ELSE from_be_bytes(SubSeq(file, 8 * i - 7, 8 * i))]

\* lines 47 and 69: the permutation of a file of args.perms
MapPerm(p) ==
    IF epserde THEN Epserde_mmap(EpserdeFile(p)) ELSE JavaFile(p)

\* p.len() and p.as_ref().len()
PermLen(p) == IF epserde THEN Len(p) ELSE Len(p) \div 8

\* lines 60 and 83: p[v] and p.get(v)
PermGet(p, v) == IF epserde THEN p[v + 1] ELSE JavaPermutation_get(p, v)

\* the permutations applied from the last to the first
RECURSIVE ComposeLastFirst(_, _)
ComposeLastFirst(ps, v) ==
    IF ps = <<>> THEN v
    ELSE PermGet(Head(ps), ComposeLastFirst(Tail(ps), v))

\* lines 58-61 and 81-84: for p in &perm { v = p[v]; }
RECURSIVE Compose(_, _)
Compose(ps, v) ==
    IF ps = <<>> THEN v ELSE Compose(Tail(ps), PermGet(Head(ps), v))

NoFile == [exists |-> FALSE, bytes |-> <<>>]

\* args.dst is there before the call, with one value in it
OldFile == [exists |-> TRUE, bytes |-> to_be_bytes(1)]

PermsIdle ==
    /\ perms = <<>>
    /\ epserde = FALSE
    /\ perm = <<>>
    /\ merged = <<>>
    /\ dst = NoFile
    /\ merge_pc = "idle"

\* the permutations of 0 .. n - 1, and the lists of files of args.perms
PermutationsOf(n) ==
    {f \in [1..n -> 0..(n - 1)] : \A i, j \in 1..n : f[i] = f[j] => i = j}

PermLists ==
    UNION {[1..k -> UNION {PermutationsOf(n) : n \in 0..MaxPermLen}] :
            k \in 0..MaxPerms}

\* lines 44-55 and 66-78: the files mapped and their lengths compared; the
\* Java branch has created args.dst by then.  perm[0] of no file at all is
\* a panic, lengths that differ the error of ensure!
MapPerms ==
    /\ merge_pc = "start"
    /\ perm' = [k \in 1..Len(perms) |-> MapPerm(perms[k])]
    /\ merged' = <<>>
    /\ dst' = IF epserde THEN dst ELSE [exists |-> TRUE, bytes |-> <<>>]
    /\ merge_pc' =
        IF \E k \in 1..Len(perm') : PermLen(perm'[k]) # PermLen(perm'[1])
        THEN "err"
        ELSE IF perm' = <<>> THEN "abort"
        ELSE "loop"
    /\ UNCHANGED <<perms, epserde, bvvars, bitvars, alvars>>

\* lines 57-63 and 80-86: one turn of for i in 0..perm[0].len()
MergeOne ==
    /\ merge_pc = "loop"
    /\ Len(merged) < PermLen(perm[1])
    /\ merged' = Append(merged, Compose(perm, Len(merged)))
    /\ UNCHANGED <<perms, epserde, perm, dst, merge_pc, bvvars, bitvars,
                   alvars>>

\* lines 64 and 87-89: merged stored, or written value by value
StoreMerged ==
    /\ merge_pc = "loop"
    /\ Len(merged) = PermLen(perm[1])
    /\ dst' = [exists |-> TRUE,
               bytes |-> IF epserde THEN EpserdeFile(merged)
                         ELSE [b \in 1..(8 * Len(merged)) |->
                                 to_be_bytes(merged[((b - 1) \div 8) + 1])
                                     [((b - 1) % 8) + 1]]]
    /\ merge_pc' = "done"
    /\ UNCHANGED <<perms, epserde, perm, merged, bvvars, bitvars, alvars>>

(***************************************************************************)
(* An iterator as a value: [codes_pos, backrefs, current_node, ret,        *)
(* yielded], the fields of WebgraphSequentialIter and what it returned.    *)
(***************************************************************************)
NoIter == [codes_pos |-> 0, backrefs |-> <<>>, current_node |-> 0,
           ret |-> [kind |-> "absent", node |-> 0, succ |-> <<>>],
           yielded |-> <<>>]

\* CodesReaderBuilder::get_reader(offset): a reader of its own at offset
get_reader(offset) == offset

\* lines 157-171, over the reader with its cursor at c
WebgraphSequentialIter_new(c) ==
    [codes_pos |-> c,
     backrefs |-> [i \in 1..(compression_window + 1) |-> <<>>],
     current_node |-> 0,
     ret |-> [kind |-> "new", node |-> 0, succ |-> <<>>],
     yielded |-> <<>>]

\* lines 283-295 on the iterator it, the file being s
LenderNextOf(it, s) ==
    IF it.current_node >= number_of_nodes
    THEN [it EXCEPT !.ret = [kind |-> "none", node |-> 0, succ |-> <<>>]]
    ELSE LET res == BackrefsTake(it.backrefs, it.current_node)
             r == get_successors_iter_priv(it.current_node, s, it.codes_pos,
                                           res)
         IN  IF r.st = "ok"
             THEN [codes_pos |-> r.c,
                   backrefs |-> BackrefsPush(res, it.current_node, r.res),
                   current_node |-> it.current_node + 1,
                   ret |-> [kind |-> "some", node |-> it.current_node,
                            succ |-> r.res],
                   yielded |-> Append(it.yielded,
                                      [node |-> it.current_node,
                                       succ |-> r.res])]
             ELSE [it EXCEPT !.codes_pos = r.c, !.backrefs = res,
                             !.ret = [kind |-> "abort",
                                      node |-> it.current_node,
                                      succ |-> <<>>]]

\* the loop run for 0..=from
RECURSIVE NextTimes_Inclusive(_, _, _)
NextTimes_Inclusive(it, from, s) ==
    IF it.ret.kind = "abort" THEN it
    ELSE IF from = 0 THEN LenderNextOf(it, s)
    ELSE NextTimes_Inclusive(LenderNextOf(it, s), from - 1, s)

\* lines 53-55: for _ in 0..from { iter.next(); }
RECURSIVE NextTimes(_, _, _)
NextTimes(it, from, s) ==
    IF from = 0 \/ it.ret.kind = "abort" THEN it
    ELSE NextTimes(LenderNextOf(it, s), from - 1, s)

\* the new iterator reading on with the reader of the first one
iter_from_SharedReader(from) ==
    NextTimes(WebgraphSequentialIter_new(codes_pos), from, stream)

\* lines 45-58
iter_from(from) ==
    NextTimes(WebgraphSequentialIter_new(get_reader(0)), from, stream)

(***************************************************************************)
(* WebgraphSequentialIter::new and Lender::next.                           *)
(***************************************************************************)
Init ==
    /\ bit_order = "M2L" /\ host_le = TRUE /\ pattern = 0 /\ bit_idx = 0
    /\ data_pos = 0 /\ words_read = 0 /\ ops = 0 /\ last = NoCall
    /\ number_of_nodes \in 0..MaxNodes
    /\ compression_window \in 0..MaxWindow
    /\ min_interval_length \in 0..MaxMinIntervalLength
    /\ overflow_checks \in BOOLEAN
    /\ stream = <<>>
    /\ offsets = <<>>
    /\ graph = <<>>
    /\ codes_pos = 0
    /\ backrefs = [i \in 1..(compression_window + 1) |-> <<>>]
    /\ current_node = 0
    /\ ret = [kind |-> "new", node |-> 0, succ |-> <<>>]
    /\ yielded = <<>>
    /\ degrees = <<>>
    /\ other = NoIter
    /\ ArcListIdle
    /\ PermsIdle

\* what is known of the file once node v was read: x for v if v is new
Known(l, v, x) == IF v < Len(l) THEN l ELSE Append(l, x)

\* the end test accepting one node more
PastEnd == current_node > number_of_nodes

\* line 283
AtEnd == current_node >= number_of_nodes

\* next without the push of the list into the window
LenderNext_NoPush(cands) ==
    /\ ret.kind # "abort"
    /\ UNCHANGED <<number_of_nodes, compression_window, min_interval_length,
                   overflow_checks, bitvars, alvars, pmvars, other>>
    /\ IF AtEnd
       THEN /\ ret' = [kind |-> "none", node |-> 0, succ |-> <<>>]
            /\ UNCHANGED <<stream, offsets, graph, codes_pos, backrefs,
                           current_node, yielded, degrees>>
       ELSE \E cand \in cands :
            LET res == BackrefsTake(backrefs, current_node)
                r == get_successors_iter_priv(current_node, cand.s,
                                              codes_pos, res)
            IN  /\ stream' = cand.s
                /\ offsets' = Known(offsets, current_node, cand.o)
                /\ graph' = Known(graph, current_node, cand.g)
                /\ codes_pos' = r.c
                /\ IF r.st = "ok"
                   THEN /\ backrefs' = res
                        /\ current_node' = current_node + 1
                        /\ ret' = [kind |-> "some", node |-> current_node,
                                   succ |-> r.res]
                        /\ yielded' = Append(yielded, [node |-> current_node,
                                                        succ |-> r.res])
                        /\ degrees' = Append(degrees, Rd(cand.s, codes_pos))
                   ELSE /\ backrefs' = res
                        /\ ret' = [kind |-> "abort", node |-> current_node,
                                   succ |-> <<>>]
                        /\ UNCHANGED <<current_node, yielded, degrees>>

\* lines 283-295, on one of the streams in cands
LenderNext(cands) ==
    /\ ret.kind # "abort"
    /\ UNCHANGED <<number_of_nodes, compression_window, min_interval_length,
                   overflow_checks, bitvars, alvars, pmvars, other>>
    /\ IF AtEnd
       THEN /\ ret' = [kind |-> "none", node |-> 0, succ |-> <<>>]
            /\ UNCHANGED <<stream, offsets, graph, codes_pos, backrefs,
                           current_node, yielded, degrees>>
       ELSE \E cand \in cands :
            LET res == BackrefsTake(backrefs, current_node)
                r == get_successors_iter_priv(current_node, cand.s,
                                              codes_pos, res)
            IN  /\ stream' = cand.s
                /\ offsets' = Known(offsets, current_node, cand.o)
                /\ graph' = Known(graph, current_node, cand.g)
                /\ codes_pos' = r.c
                /\ IF r.st = "ok"
                   THEN /\ backrefs' = BackrefsPush(res, current_node, r.res)
                        /\ current_node' = current_node + 1
                        /\ ret' = [kind |-> "some", node |-> current_node,
                                   succ |-> r.res]
                        /\ yielded' = Append(yielded, [node |-> current_node,
                                                        succ |-> r.res])
                        /\ degrees' = Append(degrees, Rd(cand.s, codes_pos))
                   ELSE /\ backrefs' = res
                        /\ ret' = [kind |-> "abort", node |-> current_node,
                                   succ |-> <<>>]
                        /\ UNCHANGED <<current_node, yielded, degrees>>

NextOfGraph == LenderNext(GraphExtensions)

NextOfAnyStream == LenderNext(AnyExtensions)

Next == NextOfGraph

Spec == Init /\ [][Next]_vars

NextAny == NextOfAnyStream

SpecAny == Init /\ [][NextAny]_vars

(***************************************************************************)
(* next and next_successors called in any order, over any stream of codes. *)
(***************************************************************************)
\* lines 174-180, on one of the streams in cands, for at most MaxPastEnd
\* nodes past number_of_nodes and MaxNodes nodes in all
NextSuccessors(cands) ==
    /\ ret.kind # "abort"
    /\ current_node < number_of_nodes + MaxPastEnd
    /\ current_node < MaxNodes
    /\ UNCHANGED <<number_of_nodes, compression_window, min_interval_length,
                   overflow_checks, bitvars, alvars, pmvars, other>>
    /\ \E cand \in cands :
        LET res == BackrefsTake(backrefs, current_node)
            r == get_successors_iter_priv(current_node, cand.s,
                                          codes_pos, res)
        IN  /\ stream' = cand.s
            /\ offsets' = Known(offsets, current_node, cand.o)
            /\ graph' = Known(graph, current_node, cand.g)
            /\ codes_pos' = r.c
            /\ IF r.st = "ok"
               THEN /\ backrefs' = BackrefsPush(res, current_node, r.res)
                    /\ current_node' = current_node + 1
                    /\ ret' = [kind |-> "some", node |-> current_node,
                               succ |-> r.res]
                    /\ yielded' = Append(yielded, [node |-> current_node,
                                                    succ |-> r.res])
                    /\ degrees' = Append(degrees, Rd(cand.s, codes_pos))
               ELSE /\ backrefs' = res
                    /\ ret' = [kind |-> "abort", node |-> current_node,
                               succ |-> <<>>]
                    /\ UNCHANGED <<current_node, yielded, degrees>>

NextSuccessorsOfAnyStream == NextSuccessors(AnyExtensions)

NextCalls == NextOfAnyStream \/ NextSuccessorsOfAnyStream

SpecCalls == Init /\ [][NextCalls]_vars

(***************************************************************************)
(* Two iterators of one graph, their calls of next in any order.  The file *)
(* is written as far as the iterator that is ahead has read.               *)
(***************************************************************************)
\* the file at node v: as it is if v was written, else with v written next
GraphAt(v) ==
    IF v < Len(graph)
    THEN {[s |-> stream, o |-> offsets[v + 1], g |-> graph[v + 1]]}
    ELSE {[s |-> stream \o EncodeNode(v, T, r), o |-> Len(stream), g |-> T] :
            T \in SuccessorLists(number_of_nodes),
            r \in 0..Min(v, compression_window)}

FirstNext == LenderNext(GraphAt(current_node))

IterFrom ==
    /\ other = NoIter
    /\ \E from \in 0..Len(graph) : other' = iter_from(from)
    /\ UNCHANGED <<number_of_nodes, compression_window, min_interval_length,
                   overflow_checks, stream, offsets, graph, codes_pos,
                   backrefs, current_node, ret, yielded, degrees, bitvars, alvars, pmvars>>

OtherNext ==
    /\ other.ret.kind \notin {"absent", "abort"}
    /\ \E cand \in (IF other.current_node >= number_of_nodes
                     THEN {[s |-> stream, o |-> 0, g |-> <<>>]}
                     ELSE GraphAt(other.current_node)) :
        /\ other' = LenderNextOf(other, cand.s)
        /\ stream' = cand.s
        /\ IF other.current_node >= number_of_nodes
           THEN UNCHANGED <<offsets, graph>>
           ELSE /\ offsets' = Known(offsets, other.current_node, cand.o)
                /\ graph' = Known(graph, other.current_node, cand.g)
    /\ UNCHANGED <<number_of_nodes, compression_window, min_interval_length,
                   overflow_checks, codes_pos, backrefs, current_node, ret,
                   yielded, degrees, bitvars, alvars, pmvars>>

NextTwo == FirstNext \/ IterFrom \/ OtherNext

SpecTwo == Init /\ [][NextTwo]_vars

(***************************************************************************)
(* ArcListGraph::iter over a list of arcs sorted by source, the Successors *)
(* of a node read as far as the caller likes.                              *)
(***************************************************************************)
\* lines 21-26, 43-50 and 98-99, with from = 0
InitArcs ==
    /\ bit_order = "M2L" /\ host_le = TRUE /\ pattern = 0 /\ bit_idx = 0
    /\ data_pos = 0 /\ words_read = 0 /\ ops = 0 /\ last = NoCall
    /\ number_of_nodes = 0
    /\ compression_window = 0
    /\ min_interval_length = 0
    /\ overflow_checks = TRUE
    /\ stream = <<>>
    /\ offsets = <<>>
    /\ graph = <<>>
    /\ codes_pos = 0
    /\ backrefs = <<<<>>>>
    /\ current_node = 0
    /\ ret = [kind |-> "new", node |-> 0, succ |-> <<>>]
    /\ yielded = <<>>
    /\ degrees = <<>>
    /\ other = NoIter
    /\ num_nodes \in 0..MaxArcNodes
    /\ arcs \in ArcLists(num_nodes)
    /\ curr_node = -1
    /\ next_pair = IterNext(0).pair
    /\ iter = IterNext(0).iter
    /\ lent = <<>>
    /\ PermsIdle

NextArcs == NodeIteratorNext \/ SuccessorsNext

SpecArcs == InitArcs /\ [][NextArcs]_vars

(***************************************************************************)
(* merge_perms over each list of files of permutations, in both formats.   *)
(***************************************************************************)
InitPerms ==
    /\ bit_order = "M2L" /\ host_le \in BOOLEAN /\ pattern = 0
    /\ bit_idx = 0
    /\ data_pos = 0 /\ words_read = 0 /\ ops = 0 /\ last = NoCall
    /\ number_of_nodes = 0
    /\ compression_window = 0
    /\ min_interval_length = 0
    /\ overflow_checks = TRUE
    /\ stream = <<>>
    /\ offsets = <<>>
    /\ graph = <<>>
    /\ codes_pos = 0
    /\ backrefs = <<<<>>>>
    /\ current_node = 0
    /\ ret = [kind |-> "new", node |-> 0, succ |-> <<>>]
    /\ yielded = <<>>
    /\ degrees = <<>>
    /\ other = NoIter
    /\ ArcListIdle
    /\ perms \in PermLists
    /\ epserde \in BOOLEAN
    /\ perm = <<>>
    /\ merged = <<>>
    /\ dst \in {NoFile, OldFile}
    /\ merge_pc = "start"

NextPerms == MapPerms \/ MergeOne \/ StoreMerged

SpecPerms == InitPerms /\ [][NextPerms]_vars

(***************************************************************************)
(* The bit reader alone, over each file, target and bit order.             *)
(***************************************************************************)
InitBits ==
    /\ bit_order \in {"M2L", "L2M"}
    /\ host_le \in BOOLEAN
    /\ pattern \in 0..MaxPattern
    /\ bit_idx = 0
    /\ data_pos = 0
    /\ words_read = 0
    /\ ops = 0
    /\ last = NoCall
    /\ number_of_nodes = 0
    /\ compression_window = 0
    /\ min_interval_length = 0
    /\ overflow_checks = TRUE
    /\ stream = <<>>
    /\ offsets = <<>>
    /\ graph = <<>>
    /\ codes_pos = 0
    /\ backrefs = <<<<>>>>
    /\ current_node = 0
    /\ ret = [kind |-> "new", node |-> 0, succ |-> <<>>]
    /\ yielded = <<>>
    /\ degrees = <<>>
    /\ other = NoIter
    /\ ArcListIdle
    /\ PermsIdle

NextBits == PeekBits \/ ReadBits \/ SkipBits \/ SeekBit \/ ReadUnary

SpecBits == InitBits /\ [][NextBits]_vars

(***************************************************************************)
(* The random-access accessor: successors(v) seeks the codes reader to     *)
(* offsets[v] and decodes the node, decoding its reference node the same   *)
(* way.  Written from the description of the format: the copied ranges     *)
(* are those of even index of the partition of the reference list, the     *)
(* intervals and residuals are the cumulative sums of their gaps.          *)
(***************************************************************************)
RECURSIVE SortAscending(_)
SortAscending(l) ==
    IF l = <<>> THEN <<>>
    ELSE LET i == CHOOSE i \in 1..Len(l) : \A j \in 1..Len(l) : ULe(l[i], l[j])
         IN  <<l[i]>> \o SortAscending(SubSeq(l, 1, i - 1)
                                       \o SubSeq(l, i + 1, Len(l)))

\* the elements of prev in the ranges of even index; B blocks read at c
CopiedRanges(prev, c, B) ==
    LET p[i \in 1..B] == IF i = 1 THEN Rd(stream, c)
                         ELSE p[i - 1] + Rd(stream, c + i - 1) + 1
        RangeIndex(j) == Cardinality({i \in 1..B : p[i] < j})
        keep == {j \in 1..Len(prev) : RangeIndex(j) % 2 = 0}
    IN  [k \in 1..Cardinality(keep) |->
            prev[CHOOSE j \in keep : Cardinality({i \in keep : i < j}) = k - 1]]

\* the ids of the I intervals read at c, for node v
IntervalIds(v, c, I) ==
    LET len[k \in 1..I] == Rd(stream, c + 2 * k - 1) + min_interval_length
        start[k \in 1..I] ==
            IF k = 1 THEN v + nat2int(Rd(stream, c))
            ELSE start[k - 1] + len[k - 1] + 1 + Rd(stream, c + 2 * k - 2)
        all[k \in 0..I] ==
            IF k = 0 THEN <<>>
            ELSE all[k - 1] \o [i \in 1..len[k] |-> start[k] + i - 1]
    IN  all[I]

\* the n residuals read at c, for node v
ResidualIds(v, c, n) ==
    LET cur[k \in 1..n] == IF k = 1 THEN v + nat2int(Rd(stream, c))
                           ELSE cur[k - 1] + 1 + Rd(stream, c + k - 1)
    IN  [k \in 1..n |-> cur[k]]

RECURSIVE successors(_)
successors(v) ==
    LET o == offsets[v + 1]
        d == Rd(stream, o)
        r == IF compression_window > 0 THEN Rd(stream, o + 1) ELSE 0
        c1 == IF compression_window > 0 THEN o + 2 ELSE o + 1
    IN  IF d = 0 THEN [st |-> "ok", res |-> <<>>]
        ELSE IF r > Min(v, compression_window)
        THEN [st |-> "corrupt", res |-> <<>>]
        ELSE
        LET prev == IF r > 0 THEN successors(v - r)
                    ELSE [st |-> "ok", res |-> <<>>]
            B == IF r > 0 THEN Rd(stream, c1) ELSE 0
            copied == IF r > 0 THEN CopiedRanges(prev.res, c1 + 1, B)
                      ELSE <<>>
            c2 == IF r > 0 THEN c1 + 1 + B ELSE c1
            hasIv == Len(copied) < d /\ min_interval_length > 0
            I == IF hasIv THEN Rd(stream, c2) ELSE 0
            iv == IF hasIv THEN IntervalIds(v, c2 + 1, I) ELSE <<>>
            c3 == IF hasIv THEN c2 + 1 + 2 * I ELSE c2
            n == d - Len(copied) - Len(iv)
        IN  IF prev.st # "ok" \/ n < 0
            THEN [st |-> "corrupt", res |-> <<>>]
            ELSE [st |-> "ok",
                  res |-> SortAscending(copied \o iv
                                        \o ResidualIds(v, c3, n))]

(***************************************************************************)
(* The degrees-only iterator: next_degree reads the out-degree of the next *)
(* node and skips the rest of its codes, keeping only the degrees of the   *)
(* nodes before it.  DegreesIter(v) is its state after v nodes.            *)
(***************************************************************************)
\* the number of elements of a list of n elements in the ranges of even
\* index, B blocks read at c
CopiedCount(n, c, B) ==
    LET p[i \in 1..B] == IF i = 1 THEN Rd(stream, c)
                         ELSE p[i - 1] + Rd(stream, c + i - 1) + 1
    IN  Cardinality({j \in 1..n :
                       Cardinality({i \in 1..B : p[i] < j}) % 2 = 0})

RECURSIVE SumOfLens(_, _)
SumOfLens(c, I) ==
    IF I = 0 THEN 0
    ELSE Rd(stream, c + 2 * I - 1) + min_interval_length + SumOfLens(c, I - 1)

RECURSIVE DegreesIter(_)
DegreesIter(v) ==
    IF v = 0 THEN [pos |-> 0, degs |-> <<>>]
    ELSE
    LET before == DegreesIter(v - 1)
        node == v - 1
        o == before.pos
        d == Rd(stream, o)
        r == IF d # 0 /\ compression_window > 0 THEN Rd(stream, o + 1) ELSE 0
        c1 == IF d = 0 THEN o + 1
              ELSE IF compression_window > 0 THEN o + 2 ELSE o + 1
        B == IF r > 0 THEN Rd(stream, c1) ELSE 0
        ncopied == IF r > 0 /\ r <= node
                   THEN CopiedCount(before.degs[node - r + 1], c1 + 1, B)
                   ELSE 0
        c2 == IF r > 0 THEN c1 + 1 + B ELSE c1
        hasIv == d # 0 /\ ncopied < d /\ min_interval_length > 0
        I == IF hasIv THEN Rd(stream, c2) ELSE 0
        c3 == IF hasIv THEN c2 + 1 + 2 * I ELSE c2
        n == d - ncopied - SumOfLens(c2 + 1, I)
    IN  [pos |-> IF n > 0 THEN c3 + n ELSE c3, degs |-> Append(before.degs, d)]

next_degree(v) == DegreesIter(v + 1).degs[v + 1]

(***************************************************************************)
(* Bit offsets.  The codes of the graph file are taken to be γ codes; the  *)
(* .offsets file holds the γ codes of the gaps between the offsets of the  *)
(* nodes, and the .ef file their Elias-Fano table.                         *)
(***************************************************************************)
RECURSIVE Log2Floor(_)
Log2Floor(x) == IF x <= 1 THEN 0 ELSE 1 + Log2Floor(x \div 2)

\* the number of bits of γ(x)
GammaLen(x) == 2 * Log2Floor(x + 1) + 1

\* h bits of x, the most significant first
RECURSIVE BitsOf(_, _)
BitsOf(x, h) ==
    IF h = 0 THEN <<>> ELSE Append(BitsOf(x \div 2, h - 1), x % 2)

\* γ(x): Unary(h) and the h low bits of x + 1, with h = floor(log2(x + 1))
GammaBits(x) ==
    LET h == Log2Floor(x + 1)
    IN  [i \in 1..h |-> 0] \o <<1>> \o BitsOf(x + 1, h)

\* the bit position rounded down to a whole byte
get_bit_pos_Bytes(s, pos) ==
    LET F[i \in 0..pos] ==
            IF i = 0 THEN 0 ELSE F[i - 1] + GammaLen(Rd(s, i - 1))
    IN  (F[pos] \div 8) * 8

\* get_bit_pos with the reader pos codes into the stream s
get_bit_pos(s, pos) ==
    LET F[i \in 0..pos] ==
            IF i = 0 THEN 0 ELSE F[i - 1] + GammaLen(Rd(s, i - 1))
    IN  F[pos]

\* the bit offsets of the nodes 0..n as the degrees scan finds them
ScanOffsets(n) ==
    [k \in 1..(n + 1) |-> get_bit_pos(stream, DegreesIter(k - 1).pos)]

\* the .offsets file of the offsets O: the γ codes of the gaps
RECURSIVE OffsetsFile(_)
OffsetsFile(O) ==
    IF O = <<>> THEN <<>>
    ELSE LET k == Len(O)
             before == IF k = 1 THEN 0 ELSE O[k - 1]
         IN  OffsetsFile(SubSeq(O, 1, k - 1)) \o GammaBits(O[k] - before)

\* the value of h bits of the file from bit at, the most significant first
RECURSIVE ValueOfBits(_, _, _)
ValueOfBits(file, at, h) ==
    IF h = 0 THEN 0
    ELSE 2 * ValueOfBits(file, at, h - 1) + file[at + h]

\* read_gamma with at bits of the file read: the value, and the bits read
read_gamma(file, at) ==
    LET h == (CHOOSE p \in (at + 1)..Len(file) :
                 file[p] = 1 /\ \A q \in (at + 1)..(p - 1) : file[q] = 0)
             - at - 1
    IN  [val |-> Pow2(h) + ValueOfBits(file, at + h + 1, h) - 1,
         at |-> at + 2 * h + 1]

\* offset += reader.read_gamma() for node_id in 0..k - 1: the offset, and
\* the bits read
RECURSIVE CumulativeOffset(_, _)
CumulativeOffset(file, k) ==
    IF k = 0 THEN [offset |-> 0, at |-> 0]
    ELSE LET before == CumulativeOffset(file, k - 1)
             gap == read_gamma(file, before.at)
         IN  [offset |-> before.offset + gap.val, at |-> gap.at]

\* the Elias-Fano table of the non-decreasing O: l low bits of each value,
\* and the bits high, where bit (O[i] >> l) + i is set for the i-th value
EliasFano(O) ==
    LET n == Len(O)
        u == O[n] + 1
        l == IF u >= n THEN Log2Floor(u \div n) ELSE 0
    IN  [l |-> l,
         low |-> [i \in 1..n |-> O[i] % Pow2(l)],
         high |-> [p \in 1..((u \div Pow2(l)) + n + 1) |->
                      IF \E i \in 1..n : p = (O[i] \div Pow2(l)) + i
                      THEN 1 ELSE 0]]

\* the position, from 0, of the one of rank i, from 0
select1(bits, i) ==
    (CHOOSE p \in 1..Len(bits) :
        bits[p] = 1 /\ Cardinality({q \in 1..(p - 1) : bits[q] = 1}) = i) - 1

\* get(i)
EliasFanoGet(ef, i) ==
    (select1(ef.high, i) - i) * Pow2(ef.l) + ef.low[i + 1]

(***************************************************************************)
(* Properties of the sequential iterator.                                  *)
(***************************************************************************)
Yielded(v) == yielded[v + 1].succ

YieldedNodes == 0..(Len(yielded) - 1)

StrictlyIncreasing(l) == \A i \in 1..(Len(l) - 1) : ULt(l[i], l[i + 1])

NonDecreasing(l) == \A i \in 1..(Len(l) - 1) : ULe(l[i], l[i + 1])

\* C1: for every node v of a graph, the list random access decodes for v
\* from the offset of v is the list the sequential iterator yielded for v.
C1_RandomAccessEqualsSequential ==
    \A v \in YieldedNodes : successors(v) = [st |-> "ok", res |-> Yielded(v)]

\* a node written with a reference and at least two successors was yielded
C1_Witness ==
    /\ compression_window # 0
    /\ \E v \in YieldedNodes :
        /\ Rd(stream, offsets[v + 1]) >= 2
        /\ Rd(stream, offsets[v + 1] + 1) # 0
        /\ successors(v) = [st |-> "ok", res |-> Yielded(v)]

C3_SuccessorsInRange ==
    \A v \in YieldedNodes :
        \A i \in 1..Len(Yielded(v)) :
            Yielded(v)[i] >= 0 /\ Yielded(v)[i] < number_of_nodes

\* a node whose first id was written as a negative offset from it, with the
\* last node of the graph among its successors
C3_Witness ==
    \E v \in YieldedNodes :
        /\ Len(Yielded(v)) >= 2
        /\ Yielded(v)[1] < v
        /\ Yielded(v)[Len(Yielded(v))] = number_of_nodes - 1
        /\ Rd(stream, offsets[v + 1] + (IF compression_window # 0 THEN 1 ELSE 0)) = 0

\* C4: over a graph the iterator yields the nodes 0, 1, ..., N-1 in this
\* order, each once, never fails, returns None only after node N-1, and a
\* call made when current_node >= N returns None and leaves current_node
\* and the cursor of the reader where they were.
C4_YieldedInOrder ==
    /\ Len(yielded) = current_node
    /\ current_node <= number_of_nodes
    /\ \A k \in 1..Len(yielded) : yielded[k].node = k - 1
    /\ ret.kind # "abort"
    /\ ret.kind = "some" => ret = [kind |-> "some", node |-> current_node - 1,
                                   succ |-> Yielded(current_node - 1)]
    /\ ret.kind = "none" => current_node = number_of_nodes

C4_NoneAtEnd ==
    current_node >= number_of_nodes =>
        /\ ret'.kind = "none"
        /\ current_node' = current_node
        /\ codes_pos' = codes_pos
        /\ yielded' = yielded

C4_NodesInOrderOnceThenNone == [] C4_YieldedInOrder /\ [][C4_NoneAtEnd]_vars

\* all the nodes of a graph of MaxNodes nodes were yielded and the next
\* call returned None
C4_Witness ==
    /\ number_of_nodes = MaxNodes
    /\ Len(yielded) = number_of_nodes
    /\ ret.kind = "none"

\* C5: the list yielded for a node of a graph has as many elements as the
\* outdegree read from the stream for it, and this outdegree is the degree
\* the degrees-only scan reports for the node.
C5_LengthIsOutdegree ==
    \A v \in YieldedNodes :
        /\ Len(Yielded(v)) = degrees[v + 1]
        /\ degrees[v + 1] = Rd(stream, offsets[v + 1])
        /\ next_degree(v) = degrees[v + 1]

\* a node with copied successors, an interval or residuals, of degree
\* MaxDegree, was yielded
C5_Witness ==
    \E v \in YieldedNodes :
        /\ v > 0
        /\ degrees[v + 1] = MaxDegree
        /\ Len(Yielded(v)) = MaxDegree
        /\ next_degree(v) = MaxDegree


(***************************************************************************)
(* Properties of the bit reader.                                           *)
(***************************************************************************)
LastIs(op) == ops > 0 /\ last.op = op

\* the call op(n) made with the bit index at idx and the word reader at dpos
CallOf(op, n, idx, dpos) ==
    IF op = "read_bits" THEN read_bits(n, idx, dpos)
    ELSE IF op = "peek_bits" THEN peek_bits(n, idx, dpos)
    ELSE read_unary(idx, dpos)

\* C6: in both bit orders read_bits(0) and peek_bits(0) return 0 at every
\* position, leave the bit position where it was and read no word.
C6_NoBitsIsZero ==
    ((LastIs("read_bits") \/ LastIs("peek_bits")) /\ last.n = 0) =>
        /\ last.st = "ok"
        /\ last.val = ZeroWord
        /\ bit_idx = last.at
        /\ last.reads = 0
        /\ data_pos = last.data_at

\* read_bits(0) was called away from position 0 where the next bit is 1
C6_Witness ==
    /\ LastIs("read_bits")
    /\ last.n = 0
    /\ last.at > 0
    /\ peek_bits(1, bit_idx, data_pos).val # ZeroWord

\* C7: in both bit orders read_bits(n) and peek_bits(n) with n > 64 fail
\* with the bad-argument error and leave the bit position where it was.
C7_TooManyBitsFails ==
    ((LastIs("read_bits") \/ LastIs("peek_bits")) /\ last.n > 64) =>
        /\ last.st = "err"
        /\ bit_idx = last.at

\* read_bits(65) failed away from position 0
C7_Witness ==
    /\ LastIs("read_bits")
    /\ last.n = 65
    /\ last.at > 0
    /\ last.st = "err"

\* C8: peek_bits(n), 0 <= n <= 64, leaves the bit position where it was, so
\* that a read_bits(n) after it returns what it returned; read_bits(n)
\* returns the value of peek_bits(n) at the position of the call and leaves
\* the position n further.
C8_PeekThenAdvance ==
    /\ (LastIs("peek_bits") /\ last.n <= 64) =>
            /\ last.st = "ok"
            /\ bit_idx = last.at
            /\ read_bits(last.n, bit_idx, data_pos).val = last.val
    /\ (LastIs("read_bits") /\ last.n <= 64) =>
            /\ last.st = "ok"
            /\ last.val = peek_bits(last.n, last.at, last.data_at).val
            /\ bit_idx = last.at + last.n

\* read_bits(n) returned bits that are not all 0, across two words, where
\* the n bits that follow are others
C8_Witness ==
    /\ LastIs("read_bits")
    /\ last.n \in 2..64
    /\ (last.at % 64) + last.n > 64
    /\ last.val # ZeroWord
    /\ peek_bits(last.n, bit_idx, data_pos).val # last.val

\* C9: read_bits(n), peek_bits(n) and read_unary called at position p return
\* the same value and end at the same position, whether p was reached by
\* reads and skips from position 0 or by seek_bit(p) on a new reader.
C9_SeekEqualsLinear ==
    (LastIs("read_bits") \/ LastIs("peek_bits") \/ LastIs("read_unary")) =>
        LET sought == seek_bit(last.at, 0, 0)
            res == CallOf(last.op, last.n, sought.idx, sought.dpos)
        IN  /\ last.st = res.st
            /\ last.val = res.val
            /\ last.count = res.count
            /\ bit_idx = res.idx

\* read_unary returned a count from a position inside the first word that
\* a read reached, the word reader being a word further
C9_Witness ==
    /\ LastIs("read_unary")
    /\ last.st = "ok"
    /\ last.count > 0
    /\ last.at > 0
    /\ last.at \div 64 # last.data_at

\* bit q of the file in the order of M2L: the bytes in file order, the most
\* significant bit of a byte first
StreamBitM2L(q) == BitOfByte(MemByte(q \div 8), 7 - (q % 8))

\* C10: MSB first, at every in-word offset 0..63 and for every n in 1..64,
\* peek_bits(n) at position p returns the stream bits p .. p+n-1 in the n
\* low bits of the result, the bit at p the highest of them, the bits above
\* them 0, in one word or across two.
C10_PeekBitsM2L ==
    (bit_order = "M2L" /\ LastIs("peek_bits") /\ last.n \in 1..64) =>
        /\ last.st = "ok"
        /\ \A i \in BitNumbers :
            last.val[i] = IF i < last.n
                          THEN StreamBitM2L(last.at + last.n - 1 - i)
                          ELSE 0

\* peek_bits(n) across two words at the last in-word offset, with a 1 from
\* each word
C10_Witness ==
    /\ bit_order = "M2L"
    /\ LastIs("peek_bits")
    /\ last.at = 63
    /\ last.n \in 2..64
    /\ last.val[last.n - 1] = 1
    /\ \E i \in 0..(last.n - 2) : last.val[i] = 1

\* bit q of the file in the order of L2M: the bytes in file order, the least
\* significant bit of a byte first
StreamBitL2M(q) == BitOfByte(MemByte(q \div 8), q % 8)

\* C11: LSB first, at every in-word offset 0..63 and for every n in 1..64,
\* peek_bits(n) at position p returns the stream bits p .. p+n-1 in the n
\* low bits of the result, the bit at p the lowest, the bits above bit n-1
\* all 0, in one word or across two.
C11_PeekBitsL2M ==
    (bit_order = "L2M" /\ LastIs("peek_bits") /\ last.n \in 1..64) =>
        /\ last.st = "ok"
        /\ \A i \in BitNumbers :
            last.val[i] = IF i < last.n THEN StreamBitL2M(last.at + i) ELSE 0

\* peek_bits(n), n < 64, across two words with a 1 from each word, where the
\* stream bit after the n bits is 1
C11_Witness ==
    /\ bit_order = "L2M"
    /\ LastIs("peek_bits")
    /\ last.at % 64 # 0
    /\ last.n \in 2..63
    /\ (last.at % 64) + last.n > 64
    /\ last.val[0] = 1
    /\ last.val[last.n - 1] = 1
    /\ StreamBitL2M(last.at + last.n) = 1

\* bit q of the file in the bit order of the reader
StreamBit(q) ==
    IF bit_order = "M2L" THEN StreamBitM2L(q) ELSE StreamBitL2M(q)

\* the positions from p on that hold a 1
OnesFrom(p) == {q \in p..(64 * FileWords - 1) : StreamBit(q) = 1}

\* C12: from every position p with a 1 at or after it, read_unary returns
\* the number x of 0 bits from p to the next 1 in stream order, across word
\* boundaries too, and leaves the position at p + x + 1.
C12_ReadUnaryCountsZeros ==
    (LastIs("read_unary") /\ OnesFrom(last.at) # {}) =>
        LET one == CHOOSE q \in OnesFrom(last.at) :
                        \A q2 \in OnesFrom(last.at) : q <= q2
        IN  /\ last.st = "ok"
            /\ last.count = one - last.at
            /\ bit_idx = one + 1

\* read_unary from inside the first word returned a count that ends in the
\* third word
C12_Witness ==
    /\ LastIs("read_unary")
    /\ last.st = "ok"
    /\ last.at \in 1..63
    /\ last.at + last.count >= 128
    /\ bit_idx = last.at + last.count + 1

\* an iterator run alone over the file for k calls of next
RunAlone(k) == NextTimes(WebgraphSequentialIter_new(0), k, stream)

\* C13: with the calls of next of two iterators of one graph in any order,
\* each iterator yields for every node the pair an iterator run alone
\* yields for it, and none fails.
C13_IteratorsIndependent ==
    /\ ret.kind # "abort"
    /\ other.ret.kind # "abort"
    /\ \A k \in 1..Len(yielded) : yielded[k] = RunAlone(k).yielded[k]
    /\ other # NoIter =>
        /\ other.yielded = RunAlone(Len(other.yielded)).yielded
        /\ other.current_node = Len(other.yielded)
        /\ other.codes_pos = RunAlone(Len(other.yielded)).codes_pos

\* the second iterator, made after the first had yielded a node, has
\* yielded every node of a graph with references while the first has not,
\* and the first went on after the second was made
C13_Witness ==
    /\ compression_window # 0
    /\ number_of_nodes = MaxNodes
    /\ other.current_node = number_of_nodes
    /\ current_node = 2
    /\ other.yielded[2].succ # <<>>
    /\ Rd(stream, offsets[2] + 1) # 0
    /\ yielded[2] = other.yielded[2]

(***************************************************************************)
(* Properties of the iterator over any stream.                             *)
(***************************************************************************)
\* the reference offset decoded for node v
ReferenceOffsetOf(v) ==
    IF compression_window # 0 /\ Rd(stream, offsets[v + 1]) # 0
    THEN Rd(stream, offsets[v + 1] + 1)
    ELSE 0

\* C14: when the reference offset decoded for node v is greater than
\* min(v, W), the call reports an error for the node: it neither yields a
\* list nor panics.
C14_BadReferenceReported ==
    (ret.kind \in {"some", "abort"}
     /\ ReferenceOffsetOf(ret.node) > Min(ret.node, compression_window)) =>
        ret.kind = "error"

\* C15: whatever the stream, a call of next yields a list, returns None or
\* reports a failure value: it never panics.
C15_NoPanic == ret.kind # "abort"

\* the cursor of the reader once node v was decoded
CursorAfter(v) == IF v + 2 <= Len(offsets) THEN offsets[v + 2] ELSE codes_pos

\* C16: a node whose outdegree code is 0 is yielded with the empty list and
\* the reader is left one code after the start of the node, whatever list
\* was in the slot of the window taken as scratch.
C16_DegreeZeroIsEmpty ==
    \A v \in YieldedNodes :
        degrees[v + 1] = 0 =>
            /\ Yielded(v) = <<>>
            /\ CursorAfter(v) = offsets[v + 1] + 1
            /\ (ret.kind = "some" /\ ret.node = v) =>
                    BackrefsIndex(backrefs, v) = <<>>

\* a node of outdegree 0 was yielded with a window in use, its scratch
\* being the slot where the list of an earlier node, not empty, was
C16_Witness ==
    \E v \in YieldedNodes :
        /\ compression_window # 0
        /\ v >= compression_window + 1
        /\ Yielded(v - compression_window - 1) # <<>>
        /\ degrees[v + 1] = 0
        /\ Yielded(v) = <<>>

(***************************************************************************)
(* ArcListGraph.                                                           *)
(***************************************************************************)
\* the destinations of the arcs of source v, in the order of the list
ArcDests(v) ==
    LET F[i \in 0..Len(arcs)] ==
            IF i = 0 THEN <<>>
            ELSE IF arcs[i][1] = v THEN Append(F[i - 1], arcs[i][2])
            ELSE F[i - 1]
    IN  F[Len(arcs)]

\* the arcs (node, successor) collected from the first k entries of lent
RECURSIVE Collected(_)
Collected(k) ==
    IF k = 0 THEN <<>>
    ELSE Collected(k - 1) \o
         [j \in 1..Len(lent[k].succ) |-> <<lent[k].node, lent[k].succ[j]>>]

\* the Successors of each of the first k nodes lent were read to their end
AllConsumed(k) ==
    \A i \in 1..k : lent[i].kind = "some" /\ lent[i].done

\* C17: over arcs sorted by source, the k-th call of next yields node k - 1
\* for k <= n and the call after them yields None; the successors of node v
\* read to their end are the destinations of the arcs of source v in list
\* order (read in part, a prefix of them), sorted when the arcs of each
\* source are sorted by destination; collected, they are the list of arcs.
C17_ArcListIteration ==
    /\ \A k \in 1..Min(Len(lent), num_nodes) :
        /\ lent[k].kind = "some"
        /\ lent[k].node = k - 1
        /\ Len(lent[k].succ) <= Len(ArcDests(k - 1))
        /\ lent[k].succ = SubSeq(ArcDests(k - 1), 1, Len(lent[k].succ))
        /\ lent[k].done => lent[k].succ = ArcDests(k - 1)
        /\ (lent[k].done /\ \A i \in 1..(Len(arcs) - 1) :
                arcs[i][1] = arcs[i + 1][1] => arcs[i][2] <= arcs[i + 1][2])
            => NonDecreasing(lent[k].succ)
    /\ Len(lent) > num_nodes => lent[num_nodes + 1].kind = "none"
    /\ (Len(lent) >= num_nodes /\ AllConsumed(num_nodes))
        => Collected(num_nodes) = arcs

\* every node of a graph of MaxArcNodes nodes was lent and read to its end,
\* one of them without arcs and one with two, and None was returned
C17_Witness ==
    /\ num_nodes = MaxArcNodes
    /\ Len(lent) > num_nodes
    /\ lent[num_nodes + 1].kind = "none"
    /\ AllConsumed(num_nodes)
    /\ \E k \in 1..num_nodes : lent[k].succ = <<>>
    /\ \E k \in 1..num_nodes : Len(lent[k].succ) >= 2
    /\ Collected(num_nodes) = arcs

(***************************************************************************)
(* The offsets of the nodes.                                               *)
(***************************************************************************)
\* C18: the bit offsets O[0..n] at which the degrees scan starts the nodes
\* read so far begin with 0 and grow strictly, the sequential scan is at
\* O[n] when it starts node n, and each O[v] is the sum of the first v + 1
\* γ-coded gaps of the .offsets file and get(v) of the Elias-Fano table.
C18_OffsetsOfTheScan ==
    LET O == ScanOffsets(current_node)
        file == OffsetsFile(O)
        ef == EliasFano(O)
    IN  /\ O[1] = 0
        /\ \A k \in 1..current_node : O[k] < O[k + 1]
        /\ get_bit_pos(stream, codes_pos) = O[current_node + 1]
        /\ \A v \in 0..current_node :
            /\ CumulativeOffset(file, v + 1).offset = O[v + 1]
            /\ EliasFanoGet(ef, v) = O[v + 1]

\* a graph of MaxNodes nodes was scanned to its end, a node taking one bit
\* and another more than four, over a table that keeps low bits
C18_Witness ==
    LET O == ScanOffsets(current_node)
    IN  /\ current_node = MaxNodes
        /\ number_of_nodes = MaxNodes
        /\ \E k \in 1..current_node : O[k + 1] = O[k] + 1
        /\ \E k \in 1..current_node : O[k + 1] > O[k] + 4
        /\ EliasFano(O).l >= 1
        /\ EliasFanoGet(EliasFano(O), current_node) = O[current_node + 1]
        /\ get_bit_pos(stream, codes_pos) = O[current_node + 1]

(***************************************************************************)
(* The order of the reads of one node.                                     *)
(***************************************************************************)
\* the window as it was when node v was decoded: the lists of the nodes
\* v - compression_window .. v - 1 in their slots, the other slots empty
WindowBefore(v) ==
    [i \in 1..(compression_window + 1) |->
        LET from == IF v > compression_window THEN v - compression_window
                    ELSE 0
            at == {u \in from..(v - 1) : SlotOf(u) = i}
        IN  IF at = {} THEN <<>> ELSE Yielded(CHOOSE u \in at : TRUE)]

\* the reads of node v, decoded from its offset
ReadsOfNode(v) == CodecReads(v, stream, offsets[v + 1], WindowBefore(v))

\* the place of a read in the order of the format
RankOfRead(x) ==
    CASE x = "read_outdegree" -> 1
      [] x = "read_reference_offset" -> 2
      [] x = "read_block_count" -> 3
      [] x = "read_blocks" -> 4
      [] x = "read_interval_count" -> 5
      [] x = "read_interval_start" -> 6
      [] x = "read_interval_len" -> 6
      [] x = "read_first_residual" -> 7
      [] x = "read_residual" -> 8

\* the successors copied from the reference of node v
CopiedOfNode(v) ==
    LET o == offsets[v + 1]
        r == IF compression_window # 0 THEN Rd(stream, o + 1) ELSE 0
    IN  IF r = 0 THEN <<>>
        ELSE CopyFromReference(v, r, stream, o + 2, WindowBefore(v)).res

\* the number of successors of node v present after its intervals
AfterIntervalsOfNode(v) ==
    LET o == offsets[v + 1]
        r == IF compression_window # 0 THEN Rd(stream, o + 1) ELSE 0
        c1 == IF compression_window # 0 THEN o + 2 ELSE o + 1
        copied == IF r = 0 THEN Ok(<<>>, c1)
                  ELSE CopyFromReference(v, r, stream, c1, WindowBefore(v))
    IN  Len(Intervals(v, Rd(stream, o), stream, copied).res)

\* C19: the reads of a node are in the order outdegree, reference_offset,
\* block_count, blocks, interval_count, pairs (interval_start, interval_len),
\* first_residual, residuals, each of outdegree, reference_offset,
\* block_count, interval_count and first_residual read at most once and
\* outdegree first; reference_offset is read only with a window, block_count
\* and blocks only after a reference offset that is not 0, interval_count
\* only with fewer than d successors copied and min_interval_length not 0,
\* first_residual only with fewer than d successors after the intervals.
C19_OrderOfReads ==
    \A v \in YieldedNodes :
        LET reads == ReadsOfNode(v)
            has(x) == \E i \in 1..Len(reads) : reads[i] = x
            d == Rd(stream, offsets[v + 1])
        IN  /\ reads[1] = "read_outdegree"
            /\ \A i \in 1..(Len(reads) - 1) :
                /\ RankOfRead(reads[i]) <= RankOfRead(reads[i + 1])
                /\ RankOfRead(reads[i]) = RankOfRead(reads[i + 1])
                    => RankOfRead(reads[i]) \in {4, 6, 8}
                /\ reads[i] = "read_interval_count"
                    => reads[i + 1] = "read_interval_start"
                          \/ RankOfRead(reads[i + 1]) > 6
                /\ reads[i] = "read_interval_start"
                    => reads[i + 1] = "read_interval_len"
                /\ reads[i] = "read_interval_len"
                    => reads[i + 1] # "read_interval_len"
            /\ reads[Len(reads)] # "read_interval_start"
            /\ has("read_reference_offset") => compression_window > 0
            /\ (has("read_block_count") \/ has("read_blocks"))
                => /\ compression_window > 0
                   /\ Rd(stream, offsets[v + 1] + 1) # 0
            /\ has("read_interval_count")
                => /\ Len(CopiedOfNode(v)) < d
                   /\ min_interval_length > 0
            /\ has("read_first_residual") => AfterIntervalsOfNode(v) < d
            /\ Len(reads) = CursorAfter(v) - offsets[v + 1]

\* one node read blocks, an interval_count and a first_residual, one read
\* an interval, and one, with copies from its reference, read no
\* interval_count under a min_interval_length not 0
C19_Witness ==
    /\ \E v \in YieldedNodes :
        {"read_reference_offset", "read_block_count", "read_blocks",
         "read_interval_count", "read_first_residual"}
            \subseteq RangeOf(ReadsOfNode(v))
    /\ \E v \in YieldedNodes :
        {"read_interval_count", "read_interval_start", "read_interval_len"}
            \subseteq RangeOf(ReadsOfNode(v))
    /\ \E v \in YieldedNodes :
        /\ min_interval_length > 0
        /\ CopiedOfNode(v) # <<>>
        /\ RangeOf(ReadsOfNode(v)) =
            {"read_outdegree", "read_reference_offset", "read_block_count"}

(***************************************************************************)
(* The blocks of the copy.                                                 *)
(***************************************************************************)
\* the node v has successors and a reference
HasReference(v) ==
    /\ Rd(stream, offsets[v + 1]) # 0
    /\ compression_window # 0
    /\ Rd(stream, offsets[v + 1] + 1) # 0

\* the list of the reference of node v
PrevOfNode(v) ==
    BackrefsIndex(WindowBefore(v),
                  ReferenceNodeId(v, Rd(stream, offsets[v + 1] + 1)))

\* the block count B of node v and its blocks b0 .. b(B-1), from 0
BlockCountOfNode(v) == Rd(stream, offsets[v + 1] + 2)

BlockOfNode(v, i) == Rd(stream, offsets[v + 1] + 3 + i)

\* the end in prev of block i of the partition: b0, then b1 + 1, ...
RECURSIVE BlockEnd(_, _)
BlockEnd(v, i) ==
    IF i = 0 THEN BlockOfNode(v, 0)
    ELSE BlockEnd(v, i - 1) + BlockOfNode(v, i) + 1

\* the index of the block where the k-th element of prev lies; the tail
\* is block B
BlockIndex(v, k) ==
    Cardinality({i \in 0..(BlockCountOfNode(v) - 1) : BlockEnd(v, i) < k})

\* the elements of l at the places in keep, in their order
RECURSIVE TakeAt(_, _)
TakeAt(l, keep) ==
    IF l = <<>> THEN <<>>
    ELSE LET front == TakeAt(SubSeq(l, 1, Len(l) - 1), keep)
         IN  IF Len(l) \in keep THEN Append(front, l[Len(l)]) ELSE front

UpToIntervalsOfNode(v) ==
    LET o == offsets[v + 1]
        r == IF compression_window # 0 THEN Rd(stream, o + 1) ELSE 0
        c1 == IF compression_window # 0 THEN o + 2 ELSE o + 1
        copied == IF r = 0 THEN Ok(<<>>, c1)
                  ELSE CopyFromReference(v, r, stream, c1, WindowBefore(v))
    IN  [copied |-> copied,
         iv |-> Intervals(v, Rd(stream, o), stream, copied)]

\* the ids the intervals of node v added to its list
IntervalIdsOfNode(v) ==
    LET u == UpToIntervalsOfNode(v)
    IN  SubSeq(u.iv.res, Len(u.copied.res) + 1, Len(u.iv.res))

\* the node v has successors and read an interval_count
ReadIntervalCount(v) ==
    /\ Rd(stream, offsets[v + 1]) # 0
    /\ UpToIntervalsOfNode(v).iv.c > UpToIntervalsOfNode(v).copied.c

\* the interval_count of node v and the codes after it, from 0
IntervalCountOfNode(v) == Rd(stream, UpToIntervalsOfNode(v).copied.c)

IntervalCodeOfNode(v, i) == Rd(stream, UpToIntervalsOfNode(v).copied.c + 1 + i)

\* the length and the start of interval k of node v, from 1
IntervalLenOfNode(v, k) ==
    IntervalCodeOfNode(v, 2 * k - 1) + min_interval_length

RECURSIVE IntervalStartOfNode(_, _)
IntervalStartOfNode(v, k) ==
    IF k = 1 THEN v + nat2int(IntervalCodeOfNode(v, 0))
    ELSE IntervalStartOfNode(v, k - 1) + IntervalLenOfNode(v, k - 1)
         + 1 + IntervalCodeOfNode(v, 2 * k - 2)

RECURSIVE IdsOfIntervals(_, _)
IdsOfIntervals(v, k) ==
    IF k = 0 THEN <<>>
    ELSE IdsOfIntervals(v, k - 1)
         \o [i \in 1..IntervalLenOfNode(v, k) |->
                IntervalStartOfNode(v, k) + i - 1]

\* C21: the ids the intervals of a node add are those of the intervals
\* [s_k, s_k + l_k), one after the other, with l_k at least
\* min_interval_length, s_1 = v + nat2int(x0) and s_(k+1) = s_k + l_k + 1 +
\* gap: the intervals come in ascending order and an id at least lies
\* between two of them, so they are pairwise disjoint.
C21_IntervalsAscendingDisjoint ==
    \A v \in YieldedNodes :
        ReadIntervalCount(v) =>
            LET I == IntervalCountOfNode(v)
                ids == IntervalIdsOfNode(v)
            IN  /\ ids = IdsOfIntervals(v, I)
                /\ \A k \in 1..I :
                    /\ IntervalLenOfNode(v, k) >= min_interval_length
                    /\ IntervalLenOfNode(v, k) >= 1
                /\ \A k \in 1..(I - 1) :
                    IntervalStartOfNode(v, k + 1)
                        > IntervalStartOfNode(v, k) + IntervalLenOfNode(v, k)
                /\ \A j, k \in 1..I :
                    j < k =>
                        (IntervalStartOfNode(v, j)
                            ..(IntervalStartOfNode(v, j)
                               + IntervalLenOfNode(v, j) - 1))
                        \cap (IntervalStartOfNode(v, k)
                            ..(IntervalStartOfNode(v, k)
                               + IntervalLenOfNode(v, k) - 1)) = {}
                /\ StrictlyIncreasing(ids)

\* a node was decoded with two intervals, the first starting before the
\* node, and another with an interval longer than min_interval_length
C21_Witness ==
    /\ \E v \in YieldedNodes :
        /\ ReadIntervalCount(v)
        /\ IntervalCountOfNode(v) = 2
        /\ IntervalStartOfNode(v, 1) < v
        /\ Len(IntervalIdsOfNode(v)) = 2
    /\ \E v \in YieldedNodes :
        /\ ReadIntervalCount(v)
        /\ IntervalCountOfNode(v) = 1
        /\ IntervalLenOfNode(v, 1) > min_interval_length

(***************************************************************************)
(* The residuals of a node.                                                *)
(***************************************************************************)
\* the decoding of node v as far as its residuals, before the sort
UpToResidualsOfNode(v) ==
    Residuals(v, Rd(stream, offsets[v + 1]), stream,
              UpToIntervalsOfNode(v).iv)

\* the ids the residuals of node v added to its list
ResidualIdsOfNode(v) ==
    LET iv == UpToIntervalsOfNode(v).iv
        rs == UpToResidualsOfNode(v)
    IN  SubSeq(rs.res, Len(iv.res) + 1, Len(rs.res))

\* the code i, from 0, of the residuals of node v
ResidualCodeOfNode(v, i) == Rd(stream, UpToIntervalsOfNode(v).iv.c + i)

RECURSIVE ResidualOfNode(_, _)
ResidualOfNode(v, j) ==
    IF j = 1 THEN v + nat2int(ResidualCodeOfNode(v, 0))
    ELSE ResidualOfNode(v, j - 1) + 1 + ResidualCodeOfNode(v, j - 1)

\* how many of the reads of node v are calls of x
ReadsOfKind(v, x) ==
    Cardinality({i \in 1..Len(ReadsOfNode(v)) : ReadsOfNode(v)[i] = x})

\* C22: with k = d less the successors copied and in intervals, k > 0, the
\* decoder reads one first_residual and k - 1 residuals and the node ends
\* there; the first residual is v + nat2int(x), each later one the one
\* before + 1 + gap, so the residuals grow strictly.  With k = 0 it reads
\* none.
C22_ResidualsExactlyNeeded ==
    \A v \in YieldedNodes :
        Rd(stream, offsets[v + 1]) # 0 =>
            LET k == Rd(stream, offsets[v + 1]) - AfterIntervalsOfNode(v)
                ids == ResidualIdsOfNode(v)
            IN  /\ k >= 0
                /\ ReadsOfKind(v, "read_first_residual")
                        = IF k > 0 THEN 1 ELSE 0
                /\ ReadsOfKind(v, "read_residual")
                        = IF k > 0 THEN k - 1 ELSE 0
                /\ CursorAfter(v) = UpToIntervalsOfNode(v).iv.c + k
                /\ Len(ids) = k
                /\ \A j \in 1..k : ids[j] = ResidualOfNode(v, j)
                /\ \A j \in 1..(k - 1) : ids[j] < ids[j + 1]

\* a node was decoded with two residuals, the first before the node and
\* the second right after the first, and another, with successors copied,
\* with one residual
C22_Witness ==
    /\ \E v \in YieldedNodes :
        /\ Rd(stream, offsets[v + 1]) = 2
        /\ Len(ResidualIdsOfNode(v)) = 2
        /\ ResidualIdsOfNode(v)[1] < v
        /\ ResidualCodeOfNode(v, 1) = 0
        /\ ReadsOfKind(v, "read_residual") = 1
    /\ \E v \in YieldedNodes :
        /\ CopiedOfNode(v) # <<>>
        /\ HasReference(v)
        /\ Len(ResidualIdsOfNode(v)) = 1
        /\ ReadsOfKind(v, "read_residual") = 0

(***************************************************************************)
(* The window of the sequential iterator.                                  *)
(***************************************************************************)
\* C23: the window has compression_window + 1 slots, and once node v was
\* yielded (the call after it having returned, if made), the entry of the
\* window for every u from max(0, v - compression_window) to v is the list
\* yielded for u.
C23_WindowHoldsLastLists ==
    /\ DOMAIN backrefs = 1..(compression_window + 1)
    /\ (ret.kind \in {"some", "none"} /\ yielded # <<>>) =>
        LET v == Len(yielded) - 1
            from == IF v > compression_window THEN v - compression_window
                    ELSE 0
        IN  /\ ret.kind = "some" => ret.node = v
            /\ \A u \in from..v : BackrefsIndex(backrefs, u) = Yielded(u)

\* node 2 was yielded with a window of 1: its list took the slot where
\* the list of node 0, another one, was
C23_Witness ==
    /\ compression_window = 1
    /\ ret.kind = "some"
    /\ ret.node = 2
    /\ Yielded(2) # <<>>
    /\ Yielded(1) # <<>>
    /\ Yielded(0) # Yielded(2)
    /\ BackrefsIndex(backrefs, 2) = Yielded(2)
    /\ BackrefsIndex(backrefs, 1) = Yielded(1)

(***************************************************************************)
(* The scratch slot and the slots of the references.                       *)
(***************************************************************************)
\* min(v, compression_window): the greatest legal reference offset of v
MaxLegalReference(v) == IF v <= compression_window THEN v ELSE compression_window

\* C24: for the node v decoded next, the slot taken as scratch is the slot
\* of no node v - r with 1 <= r <= min(v, W), and the window with that slot
\* taken still holds for each of them the list yielded for it; the node v
\* yielded with such an r had for reference list, in the window with its
\* own slot empty, the list yielded for v - r.
C24_ScratchIsNoLegalReference ==
    /\ ret.kind # "abort" =>
        \A r \in 1..MaxLegalReference(current_node) :
            /\ SlotOf(current_node - r) # SlotOf(current_node)
            /\ BackrefsIndex(BackrefsTake(backrefs, current_node),
                             current_node - r) = Yielded(current_node - r)
    /\ ret.kind = "some" =>
        LET v == ret.node
            r == ReferenceOffsetOf(v)
        IN  r \in 1..MaxLegalReference(v) =>
                BackrefsIndex(BackrefsTake(backrefs, v),
                              ReferenceNodeId(v, r)) = Yielded(v - r)

\* node 2 was yielded with a window of 1 and reference offset 1, copying
\* from the list of node 1 while its scratch was the slot where the list
\* of node 0, not empty, had been
C24_Witness ==
    /\ compression_window = 1
    /\ ret.kind = "some"
    /\ ret.node = 2
    /\ ReferenceOffsetOf(2) = 1
    /\ Yielded(0) # <<>>
    /\ Yielded(1) # <<>>
    /\ Yielded(0) # Yielded(1)
    /\ CopiedOfNode(2) # <<>>

(***************************************************************************)
(* iter_from against the scan from node 0.                                 *)
(***************************************************************************)
\* what the iterator it yielded after the first n items
YieldedAfter(it, n) == SubSeq(it.yielded, n + 1, Len(it.yielded))

\* C25: for every from, over the part of the file the scan from node 0 has
\* read, the iterator iter_from(from) returns stands at node min(from, N)
\* and its next k calls yield the items from + 1 .. from + k of the scan
\* from 0, nodes and lists; with from >= N its first call returns None.
C25_IterFromIsSuffix ==
    \A from \in 0..(Len(yielded) + MaxPastEnd) :
        (from <= Len(yielded) \/ Len(yielded) = number_of_nodes) =>
            LET it == iter_from(from)
                skipped == Min(from, number_of_nodes)
            IN  /\ it.ret.kind # "abort"
                /\ it.current_node = skipped
                /\ Len(it.yielded) = skipped
                /\ \A k \in 0..(Len(yielded) - skipped) :
                    YieldedAfter(NextTimes(it, k, stream), skipped)
                        = SubSeq(yielded, skipped + 1, skipped + k)
                /\ from >= number_of_nodes =>
                    /\ LenderNextOf(it, stream).ret.kind = "none"
                    /\ LenderNextOf(it, stream).yielded = it.yielded

\* the scan from 0 went through a graph of MaxNodes nodes where node 1
\* copies from node 0; iter_from(1) yields node 1 with that list first,
\* and iter_from of a node past the end returns None
C25_Witness ==
    /\ number_of_nodes = MaxNodes
    /\ Len(yielded) = number_of_nodes
    /\ ret.kind = "none"
    /\ HasReference(1)
    /\ CopiedOfNode(1) # <<>>
    /\ YieldedAfter(NextTimes(iter_from(1), 1, stream), 1) = <<yielded[2]>>
    /\ iter_from(1).codes_pos = offsets[2]
    /\ LenderNextOf(iter_from(number_of_nodes + 1), stream).ret.kind = "none"

(***************************************************************************)
(* The end of read_unary.                                                  *)
(***************************************************************************)
\* C26: every call of read_unary returns a count, whatever the file and
\* the position, the words past the end of the file being zero.
C26_ReadUnaryReturns ==
    LastIs("read_unary") => last.st = "ok"

(***************************************************************************)
(* The end of the graph under next and next_successors.                    *)
(***************************************************************************)
\* C27: whatever calls of next and next_successors were made, current_node
\* is at most number_of_nodes and every node decoded, returned or ending
\* in a panic, is below number_of_nodes.
C27_NeverPastTheEnd ==
    /\ current_node <= number_of_nodes
    /\ \A k \in 1..Len(yielded) : yielded[k].node < number_of_nodes
    /\ ret.kind \in {"some", "abort"} => ret.node < number_of_nodes

(***************************************************************************)
(* NodeIterator after its end.                                             *)
(***************************************************************************)
\* C28: once a call of NodeIterator::next has returned None, every later
\* call returns None.
C28_NoneIsFinal ==
    \A j, k \in 1..Len(lent) :
        (j < k /\ lent[j].kind = "none") => lent[k].kind = "none"

(***************************************************************************)
(* The arcs left unread by the caller.                                     *)
(***************************************************************************)
\* the number of arcs whose source is before v
ArcsBefore(v) == Cardinality({i \in 1..Len(arcs) : arcs[i][1] < v})

\* C29: whatever the caller read of the Successors lent before, for the
\* k-th call of next, k <= n: it lends node k - 1; with m successors of it
\* read since, next_pair is the arc m places after the first arc whose
\* source is not before the node, or (usize::MAX, usize::MAX) when the
\* arcs end before that place, so the arcs of earlier sources left unread
\* are gone and the Successors start at the first arc of the node; what
\* was read of a node is the beginning of the destinations of its arcs.
C29_UnreadArcsAreSkipped ==
    /\ \A k \in 1..Min(Len(lent), num_nodes) :
        /\ lent[k].kind = "some"
        /\ lent[k].node = k - 1
        /\ Len(lent[k].succ) <= Len(ArcDests(k - 1))
        /\ \A i \in 1..Len(lent[k].succ) :
            lent[k].succ[i] = arcs[ArcsBefore(k - 1) + i][2]
    /\ (lent # <<>> /\ Len(lent) <= num_nodes) =>
        LET at == ArcsBefore(curr_node) + Len(lent[Len(lent)].succ) + 1
        IN  /\ curr_node = Len(lent) - 1
            /\ next_pair = IF at <= Len(arcs) THEN arcs[at] ELSE NoPair
            /\ iter = Min(at, Len(arcs))
            /\ ~PairBefore(next_pair, curr_node)

\* of the two arcs of node 0 the caller read one, of node 1 nothing, and
\* node 2 was lent with its first arc in next_pair; its one successor read,
\* the arcs were at their end
C29_Witness ==
    /\ num_nodes = MaxArcNodes
    /\ Len(lent) = 3
    /\ Len(ArcDests(0)) = 2
    /\ Len(lent[1].succ) = 1
    /\ ~lent[1].done
    /\ lent[2].succ = <<>>
    /\ ~lent[2].done
    /\ Len(ArcDests(2)) = 1
    /\ lent[3].succ = ArcDests(2)
    /\ next_pair = NoPair

(***************************************************************************)
(* merge_perms.                                                            *)
(***************************************************************************)
\* p_k(... p_2(p_1(i)) ...) for the first k permutations of args.perms
RECURSIVE AppliedInOrder(_, _)
AppliedInOrder(k, i) ==
    IF k = 0 THEN i ELSE perms[k][AppliedInOrder(k - 1, i) + 1]

\* the value at index i of the file args.dst, read in its format
ValueInDst(i) ==
    LET b == SubSeq(dst.bytes, 8 * i + 1, 8 * i + 8)
    IN  IF epserde /\ host_le THEN from_le_bytes(b) ELSE from_be_bytes(b)

\* C30: when merge_perms ends, args.dst holds n values, n the length of
\* the permutations, and the value at every index i is
\* p_k(... p_2(p_1(i)) ...), the permutations taken in the order of
\* args.perms, in the ε-serde format and in the Java format.
C30_MergedInOrderOfApplication ==
    merge_pc = "done" =>
        /\ dst.exists
        /\ Len(dst.bytes) = 8 * Len(perms[1])
        /\ \A i \in 0..(Len(perms[1]) - 1) :
            /\ ValueInDst(i) = AppliedInOrder(Len(perms), i)
            /\ merged[i + 1] = AppliedInOrder(Len(perms), i)

\* three permutations of MaxPermLen values were merged in the Java format,
\* the first two giving another permutation in the other order
C30_Witness ==
    /\ merge_pc = "done"
    /\ ~epserde
    /\ Len(perms) = 3
    /\ Len(perms[1]) = MaxPermLen
    /\ \E i \in 1..MaxPermLen : perms[2][perms[1][i] + 1] # perms[1][perms[2][i] + 1]
    /\ \E i \in 1..MaxPermLen : perms[3][i] # i - 1
    /\ ValueInDst(0) = AppliedInOrder(3, 0)
    /\ ValueInDst(0) # 0

\* the files of args.perms do not all hold as many values
LengthsDiffer == \E k \in 1..Len(perms) : Len(perms[k]) # Len(perms[1])

\* C31: when the permutations of args.perms do not all have the same
\* length, merge_perms returns the error of ensure! and the file args.dst
\* is as it was before the call, neither created nor truncated, in the
\* ε-serde format and in the Java format.
C31_ErrorLeavesDstAlone ==
    [][(merge_pc = "start" /\ LengthsDiffer) =>
           (merge_pc' = "err" /\ dst' = dst)]_vars

====
